---- MODULE Spec2Model ----
(***************************************************************************)
(* A model of PyMca's HDF5/NeXus data source                               *)
(* (PyMca5/PyMcaCore/NexusDataSource.py): the index/slice arithmetic, the  *)
(* family pattern synthesis, the life cycle of a NexusDataSource           *)
(* (constructor, refresh, getSourceInfo, getKeyInfo, isUpdated) and        *)
(* getDataObject.                                                          *)
(*                                                                         *)
(* Strings the code inspects character by character (file names, keys,     *)
(* selection types) are sequences of one-character strings.  Python        *)
(* indices are 0-based: At(s, i) is s[i].                                  *)
(***************************************************************************)
EXTENDS Integers, Sequences, FiniteSets, TLC

VARIABLES
    pc,                \* "new" | "open" | "failed": the position of the NexusDataSource object
    sourceName,        \* self.sourceName
    sourceNameList,    \* self.__sourceNameList
    sourceObjectList,  \* self._sourceObjectList
    lastKeyInfo,       \* self.__lastKeyInfo
    disk,              \* the files on disk: root children count and modification time
    adoptedOpen,       \* whether the File object supplied by the caller is open
    cntTable,          \* the counter table of the QNexusWidget: _cntList, _aliasList, _shapeList
    call               \* the last call: its operation, its arguments and what it returned or raised

vars == <<pc, sourceName, sourceNameList, sourceObjectList, lastKeyInfo, disk, adoptedOpen, cntTable, call>>
dsVars == <<pc, sourceName, sourceNameList, sourceObjectList, lastKeyInfo, disk, adoptedOpen, cntTable>>

\* the value None
None == << >>

\* QNexusWidget.__init__: the counter table is empty
NoCounters == [cntList |-> <<>>, aliasList |-> <<>>, shapeList |-> <<>>]

(***************************************************************************)
(* Bounds of the model.                                                    *)
(***************************************************************************)
MaxDim == 3        \* the largest size of one dimension of a dataset
MaxNameLen == 4    \* the longest file name handed to get_family_pattern
MaxRank == 4       \* the largest rank of a dataset

(***************************************************************************)
(* Text helpers.                                                           *)
(***************************************************************************)
At(s, i) == s[i + 1]

Digits == {"0", "1", "2", "3", "4", "5", "6", "7", "8", "9"}

DigitChar(d) == <<"0", "1", "2", "3", "4", "5", "6", "7", "8", "9">>[d + 1]

DigitVal(c) == CHOOSE d \in 0..9 : DigitChar(d) = c

\* "%d" % n for n >= 0
RECURSIVE Dec(_)
Dec(n) == IF n < 10 THEN <<DigitChar(n)>> ELSE Dec(n \div 10) \o <<DigitChar(n % 10)>>

\* s[a:b] for 0 <= a, b
Slice(s, a, b) == SubSeq(s, a + 1, IF b > Len(s) THEN Len(s) ELSE b)

RECURSIVE Product(_)
Product(s) == IF s = <<>> THEN 1 ELSE Head(s) * Product(Tail(s))

\* shape[:-1]
LeadingDims(shape) == SubSeq(shape, 1, Len(shape) - 1)

Min2(a, b) == IF a < b THEN a ELSE b
Max2(a, b) == IF a > b THEN a ELSE b
Abs(a) == IF a < 0 THEN -a ELSE a

(***************************************************************************)
(* Index/slice arithmetic.                                                 *)
(***************************************************************************)
\* the weight of coordinate i (0-based): the product of shape[i+1 .. len(shape)-2]
Weight(i, shape) == Product(SubSeq(shape, i + 2, Len(shape) - 1))

RECURSIVE SliceLoop(_, _, _)
SliceLoop(i, reference, shape) ==
    IF i >= Len(shape) - 1 THEN <<>>
    ELSE LET v == Weight(i, shape)
         IN <<reference \div v>> \o SliceLoop(i + 1, reference % v, shape)

\* a faulty variant: the weight of coordinate i includes dimension i itself
RECURSIVE SliceLoopOwnDim(_, _, _)
SliceLoopOwnDim(i, reference, shape) ==
    IF i >= Len(shape) - 1 THEN <<>>
    ELSE LET v == Product(SubSeq(shape, i + 1, Len(shape) - 1))
         IN <<reference \div v>> \o SliceLoopOwnDim(i + 1, reference % v, shape)

_to_slice_mode_own_dim(single_idx, shape) ==
    IF Len(shape) = 2 THEN <<single_idx>> ELSE SliceLoopOwnDim(0, single_idx, shape)

_to_slice_mode(single_idx, shape) ==
    IF Len(shape) = 2 THEN <<single_idx>> ELSE SliceLoop(0, single_idx, shape)

RECURSIVE IndexLoop(_, _, _)
IndexLoop(i, slice_idx, shape) ==
    IF i >= Len(slice_idx) THEN 0
    ELSE Weight(i, shape) * At(slice_idx, i) + IndexLoop(i + 1, slice_idx, shape)

\* a faulty variant: the weights run over the last dimension as well
RECURSIVE IndexLoopLastDim(_, _, _)
IndexLoopLastDim(i, slice_idx, shape) ==
    IF i >= Len(slice_idx) THEN 0
    ELSE Product(SubSeq(shape, i + 2, Len(shape))) * At(slice_idx, i)
         + IndexLoopLastDim(i + 1, slice_idx, shape)

_to_index_mode_last_dim(slice_idx, shape) ==
    IF Len(shape) = 2 THEN At(slice_idx, 0) ELSE IndexLoopLastDim(0, slice_idx, shape)

_to_index_mode(slice_idx, shape) ==
    IF Len(shape) = 2 THEN At(slice_idx, 0) ELSE IndexLoop(0, slice_idx, shape)

\* the assertions at the head of the two functions
SliceModeAsserts(shape) == Len(shape) > 1
IndexModeAsserts(slice_idx, shape) == Len(shape) > 1 /\ Len(slice_idx) = Len(shape) - 1

(***************************************************************************)
(* get_family_pattern.                                                     *)
(***************************************************************************)
\* lines 93-101: i0, the value of i when the first loop ends: the first place
\* where the names differ (the break), or len(name1) - 1 when there is none
EqualLoopEnd(name1, name2) ==
    LET stops == {i \in 0..(Len(name1) - 1) : i >= Len(name2) \/ At(name1, i) # At(name2, i)}
    IN IF stops = {} THEN Len(name1) - 1 ELSE CHOOSE i \in stops : \A j \in stops : i <= j

\* lines 102-109: i1, the value of i when the second loop ends: the first place
\* from i0 on where the names agree again (the break), or len(name1) - 1
DifferLoopEnd(name1, name2, i0) ==
    LET stops == {i \in i0..(Len(name1) - 1) : i >= Len(name2) \/ At(name1, i) = At(name2, i)}
    IN IF stops = {} THEN Len(name1) - 1 ELSE CHOOSE i \in stops : \A j \in stops : i <= j

\* the while loop that counts the digits before i1
RECURSIVE DeltaLoop(_, _, _)
DeltaLoop(name2, i1, delta) ==
    IF i1 - delta = 0 THEN delta
    ELSE IF At(name2, i1 - delta) \in Digits THEN DeltaLoop(name2, i1, delta + 1)
    ELSE IF delta > 1 THEN delta - 1 ELSE delta

get_family_pattern(filelist) ==
    LET name1 == filelist[1]
        name2 == filelist[2]
        i1 == DifferLoopEnd(name1, name2, EqualLoopEnd(name1, name2))
        delta == DeltaLoop(name2, i1, 1)
        fmt == IF delta > 1 THEN <<"%", "0">> \o Dec(delta) \o <<"d">>
               ELSE <<"%">> \o Dec(delta) \o <<"d">>
    IN IF name1 = name2 THEN name1
       ELSE IF i1 > 0 THEN Slice(name1, 0, i1 - delta) \o fmt \o Slice(name2, i1, Len(name2))
       ELSE name1

(***************************************************************************)
(* The files of the model.  A name is a sequence of characters; the File   *)
(* object a caller may hand to the constructor is a value of its own.      *)
(***************************************************************************)
MaxFiles == 2      \* the longest name list handed to the constructor
MaxEntries == 2    \* the most root children of one file
MaxTime == 1       \* the latest modification time of a file

NameA1 == <<"a", "1">>                  \* a plain HDF5 file
NameA2 == <<"a", "2">>                  \* a plain HDF5 file
NameS0 == <<"s", "s", "0", ".">>        \* the first segment of a family set
NameS1 == <<"s", "s", "1", ".">>        \* the second segment of that set
NameMissing == <<"m">>                  \* no such file
NameRemote == <<"h", "t", "t", "p">>    \* no such file: a remote resource silx opens
FileA1 == <<"h5py.File(a1)">>           \* an h5py.File object the caller opened on a1
FamilyName == <<"s", "s", "%", "1", "d", ".">>   \* the pattern the family driver accepts

PlainFiles == {NameA1, NameA2}
Segments == {NameS0, NameS1}
Names == PlainFiles \cup Segments \cup {NameMissing, NameRemote, FamilyName, FileA1}

\* isinstance(name, h5py.File)
IsFile(name) == name = FileA1
\* os.path.exists(name)
Exists(name) == name \in PlainFiles \cup Segments
\* '%' in name
HasPercent(name) == \E i \in 1..Len(name) : name[i] = "%"
StartsWith(s, prefix) == Len(s) >= Len(prefix) /\ SubSeq(s, 1, Len(prefix)) = prefix
IsRemote(name) == StartsWith(name, <<"t", "i", "l", "e", "d">>) \/ StartsWith(name, <<"h", "t", "t", "p">>)
\* h5py.File(pattern, 'r', driver='family') finds the segments
FamilyOpens(pattern) == pattern = FamilyName

\* the file a handle reads: the handle of a plain file, of the caller's File
\* object, of the family set, or of the remote resource (it serves what a2 holds)
FileOf(name) ==
    IF name = FileA1 THEN NameA1 ELSE IF name = FamilyName THEN NameS0
    ELSE IF name = NameRemote THEN NameA2 ELSE name

\* h5open(name): "ok", or the IOError it ends with
h5open(name) ==
    IF name \in PlainFiles THEN "ok"
    ELSE IF name \in Segments THEN "IOError: family driver should be used"
    ELSE IF name = NameRemote THEN "ok"
    ELSE "IOError: unable to open file"

Handle(name, adopted) == [name |-> name, adopted |-> adopted]

(***************************************************************************)
(* NexusDataSource.__init__ and refresh.                                   *)
(***************************************************************************)
\* the loop of refresh over the names, from name number i with the handles
\* objs opened so far: what it raised, whether it left with FAMILY set, and
\* the handles
RECURSIVE RefreshLoop(_, _, _)
RefreshLoop(names, i, objs) ==
    IF i > Len(names) THEN [raised |-> "none", family |-> FALSE, objs |-> objs]
    ELSE LET name == names[i]
             opened == h5open(name)
         IN IF IsFile(name) THEN RefreshLoop(names, i + 1, Append(objs, Handle(name, TRUE)))
            ELSE IF ~Exists(name) /\ HasPercent(name) /\ ~FamilyOpens(name)
            THEN [raised |-> "IOError: unable to open file", family |-> FALSE, objs |-> objs]
            ELSE IF ~Exists(name) /\ ~HasPercent(name) /\ ~IsRemote(name)
            THEN [raised |-> "IOError: File does not exists", family |-> FALSE, objs |-> objs]
            ELSE IF opened = "ok"
            THEN RefreshLoop(names, i + 1, Append(objs, Handle(name, FALSE)))
            ELSE IF opened = "IOError: family driver should be used"
            THEN IF Len(objs) > 0
                 THEN [raised |-> "IOError: Mixing segmented and non-segmented", family |-> TRUE, objs |-> objs]
                 ELSE [raised |-> "none", family |-> TRUE, objs |-> objs]
            ELSE [raised |-> opened, family |-> FALSE, objs |-> objs]

\* refresh() on the name list names: what it raised and the fields it leaves
RefreshResult(names, oldSourceName) ==
    LET loop == RefreshLoop(names, 1, <<>>)
        pattern == get_family_pattern(names)
        kept == [raised |-> loop.raised, sourceName |-> oldSourceName,
                 sourceNameList |-> names, sourceObjectList |-> loop.objs]
    IN IF loop.raised # "none" THEN kept
       ELSE IF ~loop.family THEN kept
       ELSE IF Len(names) < 2 THEN [kept EXCEPT !.raised = "IndexError"]
       ELSE IF ~HasPercent(pattern) THEN [kept EXCEPT !.raised = "IOError: Cannot read set of HDF5 files"]
       ELSE IF ~FamilyOpens(pattern) THEN [kept EXCEPT !.raised = "IOError: unable to open file"]
       ELSE [raised |-> "none", sourceName |-> <<pattern>>, sourceNameList |-> <<pattern>>,
             sourceObjectList |-> <<Handle(pattern, FALSE)>>]

\* refresh closes every handle it held: the caller's File object too
ClosesAdopted(objs) == \E i \in 1..Len(objs) : objs[i].adopted

NameInputs == UNION {[1..n -> Names] : n \in 1..MaxFiles}

\* NexusDataSource(nameInput)
Construct ==
    /\ pc = "new"
    /\ \E nameList \in NameInputs :
         LET r == RefreshResult(nameList, nameList)
         IN /\ pc' = IF r.raised = "none" THEN "open" ELSE "failed"
            /\ sourceName' = IF r.raised = "none" THEN r.sourceName ELSE <<>>
            /\ sourceNameList' = IF r.raised = "none" THEN r.sourceNameList ELSE <<>>
            /\ sourceObjectList' = IF r.raised = "none" THEN r.sourceObjectList ELSE <<>>
            /\ lastKeyInfo' = << >>
            /\ call' = [op |-> "__init__", nameInput |-> nameList, raised |-> r.raised]
    /\ UNCHANGED <<disk, adoptedOpen, cntTable>>

\* refresh()
Refresh ==
    /\ pc = "open"
    /\ LET r == RefreshResult(sourceNameList, sourceName)
       IN /\ sourceName' = r.sourceName
          /\ sourceNameList' = r.sourceNameList
          /\ sourceObjectList' = r.sourceObjectList
          /\ lastKeyInfo' = IF r.raised = "none" THEN << >> ELSE lastKeyInfo
          /\ adoptedOpen' = IF ClosesAdopted(sourceObjectList) THEN FALSE ELSE adoptedOpen
          /\ call' = [op |-> "refresh", raised |-> r.raised]
    /\ UNCHANGED <<pc, disk, cntTable>>

(***************************************************************************)
(* getSourceInfo and getKeyInfo.                                           *)
(***************************************************************************)
SOURCE_TYPE == <<"H", "D", "F", "5">>

\* len(sourceObject["/"].keys())
Entries(h) == disk[FileOf(h.name)].entries
\* a closed File object raises on every access
HandleOpen(h) == ~h.adopted \/ adoptedOpen

\* a faulty variant: the entry number of a key starts at 0
FormatKeyFromZero(i, n) == Dec(i) \o <<".">> \o Dec(n - 1)

\* "%d.%d" % (i, n)
FormatKey(i, n) == Dec(i) \o <<".">> \o Dec(n)

RECURSIVE FileKeys(_, _, _)
FileKeys(i, n, nEntries) ==
    IF n >= nEntries THEN <<>> ELSE <<FormatKey(i, n + 1)>> \o FileKeys(i, n + 1, nEntries)

RECURSIVE KeyListFrom(_, _)
KeyListFrom(objs, i) ==
    IF i > Len(objs) THEN <<>>
    ELSE FileKeys(i, 0, Entries(objs[i])) \o KeyListFrom(objs, i + 1)

\* __getSourceInfo(): what it raised and the mapping it returned
getSourceInfo ==
    IF \E i \in 1..Len(sourceObjectList) : ~HandleOpen(sourceObjectList[i])
    THEN [raised |-> "ValueError: closed file", ret |-> << >>]
    ELSE LET KeyList == KeyListFrom(sourceObjectList, 1)
         IN [raised |-> "none",
             ret |-> [SourceType |-> SOURCE_TYPE, KeyList |-> KeyList, Size |-> Len(KeyList)]]

InSeq(x, s) == \E i \in 1..Len(s) : s[i] = x

\* s.split(sep)
RECURSIVE Split(_, _)
Split(s, sep) ==
    IF ~InSeq(sep, s) THEN <<s>>
    ELSE LET k == CHOOSE k \in 1..Len(s) : s[k] = sep /\ \A j \in 1..(k - 1) : s[j] # sep
         IN <<SubSeq(s, 1, k - 1)>> \o Split(SubSeq(s, k + 1, Len(s)), sep)

\* int(s) for a text of digits with an optional sign; IsInt(s) is false where int raises
IsNat(s) == Len(s) > 0 /\ \A i \in 1..Len(s) : s[i] \in Digits
IsInt(s) == IsNat(s) \/ (Len(s) > 1 /\ s[1] \in {"-", "+"} /\ IsNat(Tail(s)))
RECURSIVE NatOf(_)
NatOf(s) == IF s = <<>> THEN 0 ELSE 10 * NatOf(SubSeq(s, 1, Len(s) - 1)) + DigitVal(s[Len(s)])
IntOf(s) == IF s[1] = "-" THEN -NatOf(Tail(s)) ELSE IF s[1] = "+" THEN NatOf(Tail(s)) ELSE NatOf(s)

\* key.split(".") gives two texts that int() accepts
KeyParses(key) ==
    LET parts == Split(key, ".")
    IN Len(parts) = 2 /\ IsInt(parts[1]) /\ IsInt(parts[2])
KeyIndex(key) == IntOf(Split(key, ".")[1]) - 1
KeyEntry(key) == IntOf(Split(key, ".")[2]) - 1

\* seq[i] of Python for an index that may be negative; InRange is false where it raises
InRange(i, n) == -n <= i /\ i < n
PyIndex(i, n) == IF i < 0 THEN i + n + 1 ELSE i + 1

\* __getKeyInfo(key)
getKeyInfoPrivate(key) ==
    IF ~KeyParses(key) THEN [raised |-> "none", ret |-> << >>]
    ELSE IF ~InRange(KeyIndex(key), Len(sourceObjectList))
    THEN [raised |-> "IndexError", ret |-> << >>]
    ELSE IF ~HandleOpen(sourceObjectList[PyIndex(KeyIndex(key), Len(sourceObjectList))])
    THEN [raised |-> "ValueError: closed file", ret |-> << >>]
    ELSE [raised |-> "none",
          ret |-> [SourceType |-> SOURCE_TYPE,
                   SourceName |-> sourceName[PyIndex(KeyIndex(key), Len(sourceName))],
                   Key |-> key,
                   FileName |-> <<"/">>]]

\* a faulty variant: an unknown key is interpreted all the same
getKeyInfoUnchecked(key) == getKeyInfoPrivate(key)

\* getKeyInfo(key)
getKeyInfo(key) ==
    LET info == getSourceInfo
    IN IF info.raised # "none" THEN [raised |-> info.raised, ret |-> << >>]
       ELSE IF InSeq(key, info.ret.KeyList) THEN getKeyInfoPrivate(key)
       ELSE [raised |-> "none", ret |-> << >>]

KeyInputs ==
    {FormatKey(i, n) : i \in 1..(MaxFiles + 1), n \in 1..(MaxEntries + 1)}
    \cup {<<"9", ".", "9">>, <<"0", ".", "1">>, <<"1", ".", "x">>}

GetSourceInfo ==
    /\ pc = "open"
    /\ call' = [op |-> "getSourceInfo", raised |-> getSourceInfo.raised, ret |-> getSourceInfo.ret]
    /\ UNCHANGED dsVars

GetKeyInfo ==
    /\ pc = "open"
    /\ \E key \in KeyInputs :
         call' = [op |-> "getKeyInfo", key |-> key,
                  raised |-> getKeyInfo(key).raised, ret |-> getKeyInfo(key).ret]
    /\ UNCHANGED dsVars

(***************************************************************************)
(* isUpdated, and the acquisition that writes the files meanwhile.         *)
(***************************************************************************)
\* os.path.getmtime(name) raises for what is not the name of a file on disk
HasMtime(name) == Exists(name)

\* isUpdated(sourceName, key): what it raised, what it returned, the cache it leaves
isUpdated(key) ==
    LET index == KeyIndex(key)
        name == sourceNameList[PyIndex(index, Len(sourceNameList))]
        lastmodified == disk[name].mtime
        fails(e) == [raised |-> e, ret |-> FALSE, lastKeyInfo |-> lastKeyInfo]
    IN IF ~KeyParses(key) THEN fails("ValueError")
       ELSE IF ~InRange(index, Len(sourceNameList)) THEN fails("IndexError")
       ELSE IF IsFile(name) THEN fails("TypeError")
       ELSE IF ~HasMtime(name) THEN fails("OSError")
       ELSE IF key \notin DOMAIN lastKeyInfo THEN fails("KeyError")
       ELSE IF lastmodified # lastKeyInfo[key]
       THEN [raised |-> "none", ret |-> TRUE,
             lastKeyInfo |-> [k \in DOMAIN lastKeyInfo |-> IF k = key THEN lastmodified ELSE lastKeyInfo[k]]]
       ELSE [raised |-> "none", ret |-> FALSE, lastKeyInfo |-> lastKeyInfo]

IsUpdated ==
    /\ pc = "open"
    /\ \E key \in KeyInputs :
         LET r == isUpdated(key)
         IN /\ lastKeyInfo' = r.lastKeyInfo
            /\ call' = [op |-> "isUpdated", key |-> key, raised |-> r.raised, ret |-> r.ret,
                        cached |-> key \in DOMAIN lastKeyInfo]
    /\ UNCHANGED <<pc, sourceName, sourceNameList, sourceObjectList, disk, adoptedOpen, cntTable>>

\* the acquisition writes a plain file: its modification time advances
WriteFile ==
    /\ pc = "open"
    /\ \E name \in PlainFiles :
         /\ InSeq(name, sourceNameList)
         /\ disk[name].mtime < MaxTime
         /\ disk' = [disk EXCEPT ![name].mtime = @ + 1]
    /\ call' = [op |-> "write"]
    /\ UNCHANGED <<pc, sourceName, sourceNameList, sourceObjectList, lastKeyInfo, adoptedOpen, cntTable>>

(***************************************************************************)
(* The life cycle of one NexusDataSource.                                  *)
(***************************************************************************)
\* a1 holds any number of entries, the other files one
DiskInputs ==
    {[name \in PlainFiles \cup Segments |->
        [entries |-> IF name = NameA1 THEN e1 ELSE 1, mtime |-> 0]] : e1 \in 0..MaxEntries}

Init ==
    /\ pc = "new"
    /\ sourceName = <<>>
    /\ sourceNameList = <<>>
    /\ sourceObjectList = <<>>
    /\ lastKeyInfo = << >>
    /\ disk \in DiskInputs
    /\ adoptedOpen = TRUE
    /\ cntTable = NoCounters
    /\ call = [op |-> "none"]


(***************************************************************************)
(* Arrays.  An array is its shape, its elements in row-major order and a   *)
(* divisor: element i is flat[i] / div.  A scalar has the empty shape.     *)
(***************************************************************************)
Array(shape, flat) == [shape |-> shape, flat |-> flat, div |-> 1]
Scalar(v) == Array(<<>>, <<v>>)
Size(a) == Product(a.shape)
\* numpy.isscalar
IsScalar(a) == a.shape = <<>>

\* a[idx] raises IndexError on a scalar and outside -n .. n-1
CanIndex(a, idx) == a.shape # <<>> /\ InRange(idx, a.shape[1])
Index0(a, idx) ==
    LET stride == Product(Tail(a.shape))
        i == PyIndex(idx, a.shape[1])
    IN [a EXCEPT !.shape = Tail(a.shape),
                 !.flat = SubSeq(a.flat, (i - 1) * stride + 1, i * stride)]

\* "for idx in slice_idx: data = data[idx]"
RECURSIVE CanIndexAll(_, _)
CanIndexAll(a, idxs) ==
    idxs = <<>> \/ (CanIndex(a, Head(idxs)) /\ CanIndexAll(Index0(a, Head(idxs)), Tail(idxs)))
RECURSIVE IndexAll(_, _)
IndexAll(a, idxs) == IF idxs = <<>> THEN a ELSE IndexAll(Index0(a, Head(idxs)), Tail(idxs))

RECURSIVE SumSeq(_)
SumSeq(s) == IF s = <<>> THEN 0 ELSE Head(s) + SumSeq(Tail(s))

\* a.sum(axis=0)
SumAxis0(a) ==
    LET stride == Product(Tail(a.shape))
    IN [a EXCEPT !.shape = Tail(a.shape),
                 !.flat = [j \in 1..stride |->
                              SumSeq([i \in 1..a.shape[1] |-> a.flat[(i - 1) * stride + j]])]]

\* a.sum()
SumAll(a) == [a EXCEPT !.shape = <<>>, !.flat = <<SumSeq(a.flat)>>]
\* a.flatten()
Flatten(a) == [a EXCEPT !.shape = <<Len(a.flat)>>]
\* a /= divider
DivideBy(a, divider) == [a EXCEPT !.div = @ * divider]
\* a[:length]
Truncate(a, length) ==
    [a EXCEPT !.shape = <<Min2(length, Len(a.flat))>>, !.flat = SubSeq(a.flat, 1, Min2(length, Len(a.flat)))]

\* numpy.arange(n)
Arange(n) == Array(<<n>>, [i \in 1..n |-> i - 1])

(***************************************************************************)
(* getDataObject: the MCA reduction (the mca role of a selection).         *)
(***************************************************************************)
\* a faulty variant: the divider counts the first dimension only
SumLeadingFirstOnly(data) ==
    IF Len(data.shape) <= 1 THEN [divider |-> 1, data |-> data]
    ELSE LET RECURSIVE Collapse(_)
             Collapse(r) ==
                 IF Len(r.data.shape) <= 1 THEN r
                 ELSE Collapse([divider |-> r.divider, data |-> SumAxis0(r.data)])
         IN Collapse([divider |-> data.shape[1], data |-> SumAxis0(data)])

\* the sum over the leading dimensions and the divider: their product
SumLeading(data) ==
    IF Len(data.shape) <= 1 THEN [divider |-> 1, data |-> data]
    ELSE LET RECURSIVE Collapse(_)
             Collapse(r) ==
                 IF Len(r.data.shape) <= 1 THEN r
                 ELSE Collapse([divider |-> r.divider * r.data.shape[1], data |-> SumAxis0(r.data)])
         IN Collapse([divider |-> data.shape[1], data |-> SumAxis0(data)])

\* lower() of the modes the model draws
Lower(mode) == IF mode = "Sum" THEN "sum" ELSE IF mode = "AVG" THEN "avg" ELSE mode

\* the avg/average/sum branch: the spectrum and info with McaLiveTime reduced
ReduceAverage(mode, mcaData, info) ==
    LET summed == SumLeading(mcaData)
        spectrum == IF Len(mcaData.shape) > 1 /\ Lower(mode) # "sum"
                    THEN DivideBy(summed.data, summed.divider) ELSE summed.data
        live == info["McaLiveTime"]
        total == IF IsScalar(live) THEN live ELSE SumAll(live)
        reduced == IF Lower(mode) # "sum" THEN DivideBy(total, summed.divider) ELSE total
    IN [raised |-> FALSE, data |-> spectrum,
        info |-> IF "McaLiveTime" \in DOMAIN info
                 THEN [info EXCEPT !["McaLiveTime"] = reduced] ELSE info]

\* lines 459-462: "MotorValues[idx] = value[single_idx]" for every motor name.  It
\* raises at the first name that has no value or whose value cannot be indexed;
\* the values before that one are already replaced
FirstBadMotor(info, single_idx) ==
    LET bad == {i \in 1..Len(info["MotorNames"]) :
                   i > Len(info["MotorValues"]) \/ ~CanIndex(info["MotorValues"][i], single_idx)}
    IN IF bad = {} THEN Len(info["MotorNames"]) + 1 ELSE CHOOSE i \in bad : \A j \in bad : i <= j
CanIndexMotors(info, single_idx) == FirstBadMotor(info, single_idx) > Len(info["MotorNames"])
IndexMotors(info, single_idx) ==
    [info EXCEPT !["MotorValues"] =
        [i \in 1..Len(@) |-> IF i < FirstBadMotor(info, single_idx) THEN Index0(@[i], single_idx) ELSE @[i]]]

\* the index/slice branch; sel is the mode text as the regular expression reads
\* it: its prefix and the integers it carries
ReduceIndex(sel, mcaData, info) ==
    LET isIndex == sel.prefix = "index"
        asserted == IF isIndex THEN Len(sel.items) = 1 /\ SliceModeAsserts(mcaData.shape)
                    ELSE Len(sel.items) = Len(mcaData.shape) - 1
                         /\ IndexModeAsserts(sel.items, mcaData.shape)
        slice_idx == IF isIndex THEN _to_slice_mode(sel.items[1], mcaData.shape) ELSE sel.items
        single_idx == IF isIndex THEN sel.items[1] ELSE _to_index_mode(slice_idx, mcaData.shape)
        failed == [raised |-> TRUE, data |-> mcaData, info |-> info]
        live == info["McaLiveTime"]
    IN IF ~asserted THEN failed
       ELSE IF _to_index_mode(slice_idx, mcaData.shape) # single_idx THEN failed
       ELSE IF ~CanIndexAll(mcaData, slice_idx) THEN failed
       ELSE IF "McaLiveTime" \in DOMAIN info /\ ~IsScalar(live) /\ ~CanIndex(Flatten(live), single_idx)
       THEN failed
       ELSE LET info1 == IF "McaLiveTime" \in DOMAIN info /\ ~IsScalar(live)
                         THEN [info EXCEPT !["McaLiveTime"] = Index0(Flatten(live), single_idx)]
                         ELSE info
            IN [raised |-> "MotorNames" \in DOMAIN info /\ ~CanIndexMotors(info1, single_idx),
                data |-> IndexAll(mcaData, slice_idx),
                info |-> IF "MotorNames" \in DOMAIN info THEN IndexMotors(info1, single_idx) ELSE info1]

(***************************************************************************)
(* getDataObject.  A selection is the dictionary the caller passes: a      *)
(* function whose domain holds the keys present.  What the call reads from *)
(* the file (the title, the positioners group, the MCA cube and its        *)
(* live_time, the counters) is the record content.                         *)
(***************************************************************************)
\* the name of root child number n of a file
EntryName(n) == <<"e">> \o Dec(n)
\* list(phynxFile["/"].keys())
RootKeys(h) == [n \in 1..Entries(h) |-> EntryName(n)]

\* list.index(x), 0-based; InSeq is false where it raises ValueError
IndexOf(x, seq) == (CHOOSE i \in 1..Len(seq) : seq[i] = x /\ \A j \in 1..(i - 1) : seq[j] # x) - 1

\* a faulty variant: the key decides the file and the entry, whatever the
\* selection names
ResolveByKey(key, selection, keysIsList) ==
    [raised |-> "none", fileIndex |-> KeyIndex(key), entryIndex |-> KeyEntry(key),
     entry |-> IF "entry" \in DOMAIN selection THEN selection["entry"] ELSE <<"/">>]

\* lines 290-309: the file and the entry of a selection, or what raised.
\* keysIsList: phynxFile["/"].keys() is a list (Python 2) and can be indexed;
\* under Python 3 it is a view and indexing it raises TypeError
Resolve(key, selection, keysIsList) ==
    LET fails(e) == [raised |-> e, fileIndex |-> 0, entryIndex |-> 0, entry |-> <<>>]
    IN IF "sourcename" \in DOMAIN selection
       THEN IF ~InSeq(selection["sourcename"], sourceNameList) THEN fails("ValueError")
            ELSE LET fileIndex == IndexOf(selection["sourcename"], sourceNameList)
                     phynxFile == sourceObjectList[fileIndex + 1]
                     entry == selection["entry"]
                 IN IF entry = <<"/">>
                    THEN [raised |-> "none", fileIndex |-> fileIndex, entryIndex |-> 0, entry |-> entry]
                    ELSE IF ~HandleOpen(phynxFile) THEN fails("ValueError: closed file")
                    ELSE IF ~InSeq(Tail(entry), RootKeys(phynxFile)) THEN fails("ValueError")
                    ELSE [raised |-> "none", fileIndex |-> fileIndex,
                          entryIndex |-> IndexOf(Tail(entry), RootKeys(phynxFile)), entry |-> entry]
       ELSE IF ~KeyParses(key) THEN fails("ValueError")
       ELSE IF ~InRange(KeyIndex(key), Len(sourceObjectList)) THEN fails("IndexError")
       ELSE LET phynxFile == sourceObjectList[PyIndex(KeyIndex(key), Len(sourceObjectList))]
            IN IF ~HandleOpen(phynxFile) THEN fails("ValueError: closed file")
               ELSE IF ~keysIsList THEN fails("TypeError: not subscriptable")
               ELSE IF ~InRange(KeyEntry(key), Entries(phynxFile)) THEN fails("IndexError")
               ELSE [raised |-> "none", fileIndex |-> KeyIndex(key), entryIndex |-> KeyEntry(key),
                     entry |-> RootKeys(phynxFile)[PyIndex(KeyEntry(key), Entries(phynxFile))]]

\* lines 340-351: the positioners read in order.  A motor of object type is
\* skipped; an array of more than one element is reduced to its first element;
\* a motor that cannot be read ends the loop after its name was appended
RECURSIVE ReadMotors(_, _, _)
ReadMotors(motors, names, values) ==
    IF motors = <<>> THEN [names |-> names, values |-> values]
    ELSE LET motor == Head(motors)
         IN IF motor.kind = "object" THEN ReadMotors(Tail(motors), names, values)
            ELSE IF motor.kind = "broken" THEN [names |-> Append(names, motor.name), values |-> values]
            ELSE ReadMotors(Tail(motors), Append(names, motor.name),
                            Append(values, IF Size(motor.value) > 1
                                           THEN Scalar(motor.value.flat[1]) ELSE motor.value))

\* lines 321-354: the record with its info, before the data are read
NewOutput(keyInfo, selection, entry, content) ==
    LET info0 == ("title" :> content.title) @@ ("selection" :> selection) @@ keyInfo
        read == ReadMotors(content.positioners.motors, <<>>, <<>>)
        info1 == IF entry # <<"/">> /\ content.positioners.present
                 THEN ("MotorNames" :> read.names) @@ ("MotorValues" :> read.values) @@ info0
                 ELSE info0
    IN [x |-> <<>>, y |-> <<>>, m |-> <<>>, data |-> <<>>, info |-> info1]

\* the values of an MCA cube and of its live_time, one value per place
Cube(shape) == Array(shape, [i \in 1..Product(shape) |-> i - 1])
LiveTimeOf(kind, shape) ==
    IF kind = "scalar" THEN Scalar(5)
    ELSE IF kind = "one" THEN Array(<<1>>, <<5>>)
    ELSE Array(LeadingDims(shape), [i \in 1..Product(LeadingDims(shape)) |-> 10 + i])

\* a faulty variant: what the reduction raises reaches the caller
McaReturnRaising(output, r, mcaChannels) ==
    IF r.raised THEN [raised |-> "Exception", output |-> << >>]
    ELSE [raised |-> "none",
          output |-> [output EXCEPT !.info = r.info, !.x = <<mcaChannels>>, !.y = <<r.data>>]]

\* lines 463-470: the except clause returns the record as it is; otherwise x and y
\* are set
McaReturn(output, r, mcaChannels) ==
    IF r.raised THEN [raised |-> "none", output |-> [output EXCEPT !.info = r.info]]
    ELSE [raised |-> "none",
          output |-> [output EXCEPT !.info = r.info, !.x = <<mcaChannels>>, !.y = <<r.data>>]]

McaReduce(mode, mcaData, info) ==
    IF Lower(mode.prefix) \in {"avg", "average", "sum"} THEN ReduceAverage(mode.prefix, mcaData, info)
    ELSE IF Lower(mode.prefix) \in {"index", "slice"} THEN ReduceIndex(mode, mcaData, info)
    ELSE [raised |-> FALSE, data |-> mcaData, info |-> info]

\* lines 363-381: the roles getMcaObjectPaths reported besides counts.  refs
\* tells what the path of a role is: "local" (a dataset of the file), "dangling"
\* (in no file), "external" (the text "filename::path") or "blank" (such a text
\* with one blank in the file name)
McaRoles == {"target", "channels", "live_time"}
RoleReported(mca, role) ==
    \/ role = "target"
    \/ role = "channels" /\ mca.channels
    \/ role = "live_time" /\ mca.live # "absent"
\* lines 368-369: the dataset of the role is read
RoleRead(mca, role) == RoleReported(mca, role) /\ mca.refs[role] = "local"
\* line 371: "fileName, path = mcaDatasetObjectPath.split()" splits at blanks, not
\* at "::": one token cannot be unpacked into two (ValueError); with one blank in
\* the text the first token names no file and the role is dropped
RolesRaise(mca) == \E role \in McaRoles : RoleReported(mca, role) /\ mca.refs[role] = "external"

McaBranch(output, selection, content) ==
    LET nChannels == content.mca.shape[Len(content.mca.shape)]
        mcaChannels == IF RoleRead(content.mca, "channels")
                       THEN Array(<<nChannels>>, [i \in 1..nChannels |-> 100 + i])
                       ELSE Arange(nChannels)
        info0 == ("selectiontype" :> <<"1", "D">>) @@ output.info
        info1 == ("McaCalib" :> Array(<<3>>, <<0, 1, 0>>)) @@ info0
        info2 == IF RoleRead(content.mca, "live_time")
                 THEN ("McaLiveTime" :> LiveTimeOf(content.mca.live, content.mca.shape)) @@ info1
                 ELSE info1
    IN IF RolesRaise(content.mca)
       THEN [raised |-> "none", output |-> [output EXCEPT !.info = info0]]
       ELSE McaReturn(output, McaReduce(selection["mcaselectiontype"], Cube(content.mca.shape), info2),
                      mcaChannels)

\* upper() of the letters the model's selection types hold
UpperChar(c) ==
    IF c = "s" THEN "S" ELSE IF c = "c" THEN "C" ELSE IF c = "a" THEN "A" ELSE IF c = "n" THEN "N"
    ELSE IF c = "m" THEN "M" ELSE IF c = "d" THEN "D" ELSE c
Upper(text) == [i \in 1..Len(text) |-> UpperChar(text[i])]

\* a faulty variant: an unknown selection type is taken as a scan
ClassifyDefaultScan(selectiontype) ==
    IF selectiontype = <<"3", "D">> THEN "3D"
    ELSE IF selectiontype = <<"2", "D">> THEN "2D"
    ELSE "1D"

\* lines 471-480: info['selectiontype'], or "unsupported" where TypeError is raised
Classify(selectiontype) ==
    IF Upper(selectiontype) \in {<<"S", "C", "A", "N">>, <<"M", "C", "A">>} THEN "1D"
    ELSE IF selectiontype = <<"3", "D">> THEN "3D"
    ELSE IF selectiontype = <<"2", "D">> THEN "2D"
    ELSE "unsupported"

TypeKey(cnt) == IF cnt = "y" THEN "yselectiontype" ELSE IF cnt = "x" THEN "xselectiontype" ELSE "mselectiontype"

\* lines 584, 586, 596: "%s selection is not 1D" % cnt.upper()
NotOneD(cnt) ==
    IF cnt = "y" THEN "TypeError: Y selection is not 1D"
    ELSE IF cnt = "x" THEN "TypeError: X selection is not 1D"
    ELSE "TypeError: M selection is not 1D"

\* a faulty variant: the dataset is returned with the dimensions it has
RoleDataAsStored(cnt, kind, selection, content) ==
    [raised |-> "none", data |-> content.counters[selection[cnt][1] + 1]]

\* lines 492-586: the data of one role, or what raised
RoleData(cnt, kind, selection, content) ==
    LET data == content.counters[selection[cnt][1] + 1]
        sel == selection[TypeKey(cnt)][1]
        isIndex == sel.prefix = "index"
        indexed == sel.prefix \in {"index", "slice"}
        slice_idx == IF isIndex THEN _to_slice_mode(sel.items[1], data.shape) ELSE sel.items
        single_idx == IF isIndex THEN sel.items[1] ELSE _to_index_mode(slice_idx, data.shape)
        asserted == IF isIndex THEN Len(sel.items) = 1 /\ SliceModeAsserts(data.shape)
                    ELSE Len(sel.items) = Len(data.shape) - 1 /\ IndexModeAsserts(sel.items, data.shape)
        fails(e) == [raised |-> e, data |-> data]
        selected == IF ~indexed THEN data
                    ELSE IF kind = "1D" THEN IndexAll(data, slice_idx)
                    ELSE Index0(data, single_idx)
    IN IF indexed /\ ~asserted THEN fails("AssertionError")
       ELSE IF indexed /\ _to_index_mode(slice_idx, data.shape) # single_idx THEN fails("AssertionError")
       ELSE IF indexed /\ kind = "1D" /\ ~CanIndexAll(data, slice_idx) THEN fails("IndexError")
       ELSE IF indexed /\ kind # "1D" /\ ~CanIndex(data, single_idx) THEN fails("IndexError")
       ELSE IF kind = "1D" /\ Len(selected.shape) = 2
       THEN IF Min2(selected.shape[1], selected.shape[2]) = 1
            THEN [raised |-> "none", data |-> Flatten(selected)]
            ELSE fails(NotOneD(cnt))
       ELSE IF kind = "1D" /\ Len(selected.shape) > 2 THEN fails(NotOneD(cnt))
       ELSE [raised |-> "none", data |-> selected]

RolePresent(cnt, selection) == cnt \in DOMAIN selection /\ Len(selection[cnt]) > 0

\* lines 587-608: the role's data stored in the record
StoreRole(cnt, kind, selection, content, output, data) ==
    IF cnt = "y" THEN IF kind = "2D" THEN [output EXCEPT !.data = <<data>>] ELSE [output EXCEPT !.y = <<data>>]
    ELSE IF cnt = "m" THEN [output EXCEPT !.m = <<data>>]
    ELSE [output EXCEPT !.x = <<data>> \o [k \in 1..(Len(selection["x"]) - 1) |->
                                              content.counters[selection["x"][k + 1] + 1]]]

\* lines 487-608: the loop over the roles y, x, m
RECURSIVE RoleLoop(_, _, _, _, _)
RoleStep(roles, kind, selection, content, output, r) ==
    IF ~RolePresent(Head(roles), selection) THEN RoleLoop(Tail(roles), kind, selection, content, output)
    ELSE IF r.raised # "none" THEN [raised |-> r.raised, output |-> output]
    ELSE IF Head(roles) = "x" /\ kind = "1D" /\ Len(selection["x"]) > 1
    THEN [raised |-> NotOneD("x"), output |-> output]
    ELSE RoleLoop(Tail(roles), kind, selection, content,
                  StoreRole(Head(roles), kind, selection, content, output, r.data))

RoleLoop(roles, kind, selection, content, output) ==
    IF roles = <<>> THEN [raised |-> "none", output |-> output]
    ELSE RoleStep(roles, kind, selection, content, output,
                  RoleData(Head(roles), kind, selection, content))

\* lines 613-622: delta, the number of points the arrays differ by
ScanDelta(output) ==
    LET ylength == Size(output.y[1])
        deltax == IF output.x # <<>> THEN Abs(ylength - Size(output.x[1])) ELSE 0
    IN IF output.m # <<>> THEN Max2(deltax, ylength - Size(output.m[1])) ELSE deltax

\* lines 613-622: length, the shortest of the arrays
ScanLength(output) ==
    LET ylength == Size(output.y[1])
        lengthx == IF output.x # <<>> THEN Min2(ylength, Size(output.x[1])) ELSE ylength
    IN IF output.m # <<>> THEN Min2(lengthx, Size(output.m[1])) ELSE lengthx

\* lines 610-635: the arrays of a scan cut to one length
Reconcile(output) ==
    LET length == ScanLength(output)
        cut(arrays) == [i \in 1..Len(arrays) |-> Truncate(arrays[i], length)]
    IN IF output.y # <<>> /\ ScanDelta(output) > 0
       THEN [output EXCEPT !.y = cut(@), !.x = cut(@), !.m = cut(@)]
       ELSE output

\* lines 610-640: what a scan returns once its roles are read
ScanReturn(loop, kind, selection) ==
    IF loop.raised # "none" THEN [raised |-> loop.raised, output |-> << >>]
    ELSE IF Upper(selection["selectiontype"]) = <<"M", "C", "A">>
    THEN [raised |-> "none", output |-> [Reconcile(loop.output) EXCEPT !.info = ("Channel0" :> 0) @@ @]]
    ELSE [raised |-> "none", output |-> IF kind = "1D" THEN Reconcile(loop.output) ELSE loop.output]

\* lines 471-680: a selection without the mca role
ScanBranch(output, selection, content) ==
    LET kind == Classify(selection["selectiontype"])
        kindText == IF kind = "1D" THEN <<"1", "D">> ELSE IF kind = "2D" THEN <<"2", "D">> ELSE <<"3", "D">>
        info1 == ("selectiontype" :> kindText) @@ ("LabelNames" :> selection["cntlist"]) @@ output.info
        info2 == IF kind = "2D" THEN ("imageselection" :> TRUE) @@ info1 ELSE info1
    IN IF "selectiontype" \notin DOMAIN selection THEN [raised |-> "KeyError", output |-> << >>]
       ELSE IF kind = "unsupported"
       THEN [raised |-> "TypeError: Unsupported selection type", output |-> << >>]
       ELSE ScanReturn(RoleLoop(<<"y", "x", "m">>, kind, selection, content,
                                [output EXCEPT !.info = info2]), kind, selection)

\* getDataObject(key, selection) with a selection: what it raised ("none" when it
\* returned) and the record it returned
getDataObjectAt(where, keyInfo, selection, content) ==
    IF where.raised # "none" THEN [raised |-> where.raised, output |-> << >>]
    ELSE IF keyInfo.raised # "none" THEN [raised |-> keyInfo.raised, output |-> << >>]
    ELSE IF "mca" \in DOMAIN selection
    THEN McaBranch(NewOutput(keyInfo.ret, selection, where.entry, content), selection, content)
    ELSE ScanBranch(NewOutput(keyInfo.ret, selection, where.entry, content), selection, content)

\* lines 310-320: actual_key and its key info
KeyInfoAt(where) == getKeyInfoPrivate(FormatKey(where.fileIndex + 1, where.entryIndex + 1))

getDataObject(key, selection, content, keysIsList) ==
    getDataObjectAt(Resolve(key, selection, keysIsList),
                    KeyInfoAt(Resolve(key, selection, keysIsList)), selection, content)

\* lines 311-319: getDataObject(key, None)
getDataObjectNone(key) ==
    IF getSourceInfo.raised # "none" THEN getSourceInfo.raised
    ELSE IF Len(Split(key, ".")) < 2 THEN "IndexError"
    ELSE IF ~KeyParses(key) THEN "ValueError"
    ELSE IF KeyIndex(key) < 0 \/ KeyEntry(key) < 0 THEN "KeyError"
    ELSE IF ~InSeq(FormatKey(KeyIndex(key) + 1, KeyEntry(key) + 1), getSourceInfo.ret.KeyList) THEN "KeyError"
    ELSE "TypeError: NotImplemented is not callable"

(***************************************************************************)
(* getDataObject applied to drawn selections and file contents, on a data  *)
(* source opened on the plain files a1 (MaxEntries entries) and a2 (one).  *)
(***************************************************************************)
NChannels == 2     \* the number of channels of an MCA spectrum
MaxLen == 3        \* the longest counter of a scan

CubeShapes == {shape \o <<NChannels>> : shape \in UNION {[1..r -> 1..MaxDim] : r \in 0..(MaxRank - 2)}}

\* the coordinate tuples of the leading dimensions of a shape
Coordinates(shape) ==
    {c \in [1..(Len(shape) - 1) -> 0..(MaxDim - 1)] : \A i \in 1..Len(c) : c[i] < shape[i]}

Mode(prefix, items) == [prefix |-> prefix, items |-> items]

\* the mcaselectiontype texts drawn for a cube: the reductions, every index
\* from -1 to the number of spectra, every coordinate tuple, and slices that
\* do not fit
McaModes(shape) ==
    {Mode(prefix, <<>>) : prefix \in {"avg", "average", "sum", "AVG", "Sum", "full"}}
    \cup {Mode("index", <<k>>) : k \in (-1)..Product(LeadingDims(shape))}
    \cup {Mode("slice", c) : c \in Coordinates(shape)}
    \cup {Mode("slice", [i \in 1..(Len(shape) - 1) |-> -1]), Mode("slice", <<0, 0, 0, 0, 0, 0>>),
          Mode("index", <<>>)}

Motor(kind) ==
    [name |-> kind, kind |-> kind,
     value |-> IF kind = "one" THEN Array(<<1>>, <<7>>)
               ELSE IF kind = "array" THEN Array(<<2>>, <<7, 8>>) ELSE Scalar(7)]

\* the positioners group of the entry: absent, empty, or holding one motor whose
\* dataset is a scalar, an array of one element, a longer array or of object
\* type, or a motor followed by one whose dataset has a type but whose value
\* cannot be read ("broken")
PositionerInputs ==
    {[present |-> FALSE, motors |-> <<>>], [present |-> TRUE, motors |-> <<>>]}
    \cup {[present |-> TRUE, motors |-> <<Motor(kind)>>] : kind \in {"scalar", "one", "array", "object"}}
    \cup {[present |-> TRUE, motors |-> <<Motor("one"), Motor("broken"), Motor("scalar")>>]}

LocalRefs == [role \in McaRoles |-> "local"]

\* live_time: absent, a scalar, an array of one element, or one value per spectrum
\* (drawn with a channels dataset); then roles whose path names nothing
\* ("dangling"), roles given as "filename::path" into the second file, which
\* holds the dataset ("external"), and the same with a blank in the file name
\* ("blank")
McaRoleInputs ==
    {[live |-> "absent", channels |-> FALSE, refs |-> LocalRefs],
     [live |-> "scalar", channels |-> FALSE, refs |-> LocalRefs],
     [live |-> "one", channels |-> FALSE, refs |-> LocalRefs],
     [live |-> "array", channels |-> TRUE, refs |-> LocalRefs],
     [live |-> "scalar", channels |-> TRUE, refs |-> [LocalRefs EXCEPT !["live_time"] = "dangling"]],
     [live |-> "array", channels |-> TRUE, refs |-> [LocalRefs EXCEPT !["channels"] = "dangling"]],
     [live |-> "scalar", channels |-> TRUE, refs |-> [LocalRefs EXCEPT !["live_time"] = "blank"]],
     [live |-> "scalar", channels |-> TRUE, refs |-> [LocalRefs EXCEPT !["live_time"] = "external"]],
     [live |-> "scalar", channels |-> TRUE, refs |-> [role \in McaRoles |-> "external"]]}

Title == <<"a", "s", "c", "a", "n">>

Where(name, entry) == ("sourcename" :> name) @@ ("entry" :> entry)

\* the call as the caller sees it: what it passed, what was raised and the record
Returned(key, selection, content, keysIsList, r) ==
    [op |-> "getDataObject", key |-> key, selection |-> selection, content |-> content,
     keysIsList |-> keysIsList, raised |-> r.raised, output |-> r.output]

GetDataObjectMca ==
    /\ pc = "open"
    /\ call.op = "none"
    /\ \E shape \in CubeShapes : \E mode \in McaModes(shape) : \E roles \in McaRoleInputs :
       \E positioners \in PositionerInputs :
       \E where \in {Where(NameA1, <<"/">> \o EntryName(1)), Where(NameA1, <<"/">>)} :
         LET key == FormatKey(1, 1)
             selection == where @@ ("mca" :> <<0>>) @@ ("mcalist" :> <<"/mca">>)
                          @@ ("mcaselectiontype" :> mode)
             content == [title |-> Title, positioners |-> positioners,
                         mca |-> [shape |-> shape, live |-> roles.live, channels |-> roles.channels,
                                 refs |-> roles.refs],
                         counters |-> <<>>]
         IN call' = Returned(key, selection, content, FALSE,
                             getDataObject(key, selection, content, FALSE))
    /\ UNCHANGED dsVars

SelectionTypes ==
    {<<"S", "C", "A", "N">>, <<"s", "c", "a", "n">>, <<"M", "C", "A">>, <<"M", "c", "a">>,
     <<"2", "D">>, <<"2", "d">>, <<"3", "D">>, <<"B", "O", "G", "U", "S">>, <<>>}

Counter(offset, length) == Array(<<length>>, [i \in 1..length |-> offset + i])

Full == <<Mode("full", <<>>)>>

GetDataObjectScan ==
    /\ pc = "open"
    /\ call.op = "none"
    /\ \E selectiontype \in SelectionTypes : \E ylength, xlength, mlength \in 0..MaxLen :
       \E key \in {FormatKey(1, 1), FormatKey(2, 1)} : \E keysIsList \in BOOLEAN :
       \E where \in {Where(NameA1, <<"/">> \o EntryName(1)), Where(NameA1, <<"/">> \o EntryName(2)),
                     Where(NameA2, <<"/">> \o EntryName(1)), Where(NameA1, <<"/">>),
                     Where(NameA1, <<"/", "z">>), Where(NameMissing, <<"/">> \o EntryName(1)),
                     << >>} :
         LET selection == where @@ ("selectiontype" :> selectiontype)
                          @@ ("cntlist" :> <<"/y", "/x", "/m">>)
                          @@ ("y" :> IF ylength > 0 THEN <<0>> ELSE <<>>)
                          @@ ("x" :> IF xlength > 0 THEN <<1>> ELSE <<>>)
                          @@ ("m" :> IF mlength > 0 THEN <<2>> ELSE <<>>)
                          @@ ("yselectiontype" :> Full) @@ ("xselectiontype" :> Full)
                          @@ ("mselectiontype" :> Full)
             content == [title |-> Title, positioners |-> [present |-> FALSE, motors |-> <<>>],
                         mca |-> [shape |-> <<NChannels>>, live |-> "absent", channels |-> FALSE,
                                 refs |-> LocalRefs],
                         counters |-> <<Counter(0, ylength), Counter(10, xlength), Counter(20, mlength)>>]
         IN /\ (keysIsList => where = << >>)
            /\ call' = Returned(key, selection, content, keysIsList,
                                getDataObject(key, selection, content, keysIsList))
    /\ UNCHANGED dsVars

\* the datasets a role may name: of one dimension or more
RoleShapes == UNION {[1..r -> 1..MaxDim] : r \in 1..(MaxRank - 1)}

\* the selection texts of a role: the whole dataset, every index from -1 to the
\* product of the leading dimensions, every coordinate tuple, texts that do not
\* fit the dataset
RoleModes(shape) ==
    {Mode("full", <<>>), Mode("index", <<>>), Mode("slice", <<0, 0, 0, 0, 0, 0>>)}
    \cup {Mode("index", <<k>>) : k \in (-1)..Product(LeadingDims(shape))}
    \cup {Mode("slice", c) : c \in Coordinates(shape)}

\* the roles drawn with a selection type: each of y, x, m and two x axes for a
\* scan, y and two x axes for an image or a stack
RoleChoices ==
    {[selectiontype |-> <<"S", "C", "A", "N">>, cnt |-> cnt, who |-> <<0>>] : cnt \in {"y", "x", "m"}}
    \cup {[selectiontype |-> <<"S", "C", "A", "N">>, cnt |-> "x", who |-> <<0, 0>>],
          [selectiontype |-> <<"2", "D">>, cnt |-> "y", who |-> <<0>>],
          [selectiontype |-> <<"3", "D">>, cnt |-> "y", who |-> <<0>>],
          [selectiontype |-> <<"3", "D">>, cnt |-> "x", who |-> <<0, 0>>]}

\* getDataObject(key, selection) for one role naming a dataset of any shape
GetDataObjectRole ==
    /\ pc = "open"
    /\ call.op = "none"
    /\ \E shape \in RoleShapes : \E mode \in RoleModes(shape) : \E choice \in RoleChoices :
         LET key == FormatKey(1, 1)
             selection == Where(NameA1, <<"/">> \o EntryName(1))
                          @@ ("selectiontype" :> choice.selectiontype)
                          @@ ("cntlist" :> <<"/d">>)
                          @@ (choice.cnt :> choice.who)
                          @@ (TypeKey(choice.cnt) :> <<mode>>)
             content == [title |-> Title, positioners |-> [present |-> FALSE, motors |-> <<>>],
                         mca |-> [shape |-> <<NChannels>>, live |-> "absent", channels |-> FALSE,
                                  refs |-> LocalRefs],
                         counters |-> <<Array(shape, [i \in 1..Product(shape) |-> i])>>]
         IN call' = Returned(key, selection, content, FALSE,
                             getDataObject(key, selection, content, FALSE))
    /\ UNCHANGED dsVars

GetDataObjectNone ==
    /\ pc = "open"
    /\ call.op = "none"
    /\ \E key \in KeyInputs :
         call' = [op |-> "getDataObject(None)", key |-> key, raised |-> getDataObjectNone(key)]
    /\ UNCHANGED dsVars

\* the caller is done with the record
Forget ==
    /\ call.op # "none"
    /\ call' = [op |-> "none"]
    /\ UNCHANGED dsVars

\* a faulty variant: the call notes the key as seen, as a cache of records would
GetDataObjectCaching ==
    /\ pc = "open"
    /\ \E key \in {FormatKey(1, 1)} :
         /\ call' = [op |-> "getDataObject(None)", key |-> key, raised |-> getDataObjectNone(key)]
         /\ lastKeyInfo' = (key :> 0) @@ lastKeyInfo
    /\ UNCHANGED <<pc, sourceName, sourceNameList, sourceObjectList, disk, adoptedOpen, cntTable>>

\* getDataObject(key, selection) at any moment of the life of the data source,
\* with no selection or with the selection of the averaged spectra of a file
GetDataObject ==
    /\ pc = "open"
    /\ \E key \in {FormatKey(1, 1)} :
         \/ call' = [op |-> "getDataObject(None)", key |-> key, raised |-> getDataObjectNone(key)]
         \/ \E name \in {NameA1} :
              LET selection == Where(name, <<"/">>) @@ ("mca" :> <<0>>) @@ ("mcalist" :> <<"/mca">>)
                               @@ ("mcaselectiontype" :> Mode("avg", << >>))
                  content == [title |-> Title, positioners |-> [present |-> FALSE, motors |-> <<>>],
                              mca |-> [shape |-> <<2, NChannels>>, live |-> "absent",
                                       channels |-> FALSE, refs |-> LocalRefs],
                              counters |-> <<>>]
              IN call' = Returned(key, selection, content, FALSE,
                                  getDataObject(key, selection, content, FALSE))
    /\ UNCHANGED dsVars

Next ==
    Construct \/ Refresh \/ GetSourceInfo \/ GetKeyInfo \/ GetDataObject \/ IsUpdated \/ WriteFile

Spec == Init /\ [][Next]_vars

InitData ==
    /\ pc = "open"
    /\ sourceName = <<NameA1, NameA2>>
    /\ sourceNameList = <<NameA1, NameA2>>
    /\ sourceObjectList = RefreshResult(<<NameA1, NameA2>>, <<NameA1, NameA2>>).sourceObjectList
    /\ lastKeyInfo = << >>
    /\ disk = [name \in PlainFiles \cup Segments |->
                 [entries |-> IF name = NameA1 THEN MaxEntries ELSE 1, mtime |-> 0]]
    /\ adoptedOpen = TRUE
    /\ cntTable = NoCounters
    /\ call = [op |-> "none"]

NextData ==
    GetDataObjectMca \/ GetDataObjectScan \/ GetDataObjectRole \/ GetDataObjectNone \/ Forget

SpecData == InitData /\ [][NextData]_vars

(***************************************************************************)
(* Claims about the catalogue.                                             *)
(***************************************************************************)
AllHandlesOpen == \A i \in 1..Len(sourceObjectList) : HandleOpen(sourceObjectList[i])

\* the number of keys of the files before file number i
RECURSIVE KeysBefore(_)
KeysBefore(i) == IF i <= 1 THEN 0 ELSE KeysBefore(i - 1) + Entries(sourceObjectList[i - 1])

\* a text of digits without a sign or a leading zero that reads as a positive integer
IsPositiveDecimal(s) == IsNat(s) /\ s[1] # "0"

\* C7: getSourceInfo on a data source whose handles are open returns SourceType
\* "HDF5", a KeyList that holds, for file number i with c_i root children, the keys
\* "i.1" .. "i.c_i" at the places after the keys of the files before it and nothing
\* else, every key two positive decimal integers around one dot, and Size equal to
\* the length of the KeyList, the sum of the c_i.
C7_KeyListInFileThenEntryOrder ==
    (call.op = "getSourceInfo" /\ AllHandlesOpen) =>
        /\ call.raised = "none"
        /\ DOMAIN call.ret = {"SourceType", "KeyList", "Size"}
        /\ call.ret.SourceType = <<"H", "D", "F", "5">>
        /\ call.ret.Size = Len(call.ret.KeyList)
        /\ call.ret.Size = KeysBefore(Len(sourceObjectList) + 1)
        /\ \A i \in 1..Len(sourceObjectList) : \A n \in 1..Entries(sourceObjectList[i]) :
              LET parts == Split(call.ret.KeyList[KeysBefore(i) + n], ".")
              IN /\ Len(parts) = 2
                 /\ IsPositiveDecimal(parts[1]) /\ NatOf(parts[1]) = i
                 /\ IsPositiveDecimal(parts[2]) /\ NatOf(parts[2]) = n

\* C7 happens: two files, the first with two entries and the second with one
C7_Witness ==
    /\ call.op = "getSourceInfo"
    /\ Len(sourceObjectList) = 2
    /\ sourceNameList = <<NameA1, NameA2>>
    /\ Entries(sourceObjectList[1]) = 2 /\ Entries(sourceObjectList[2]) = 1
    /\ call.raised = "none"
    /\ call.ret.KeyList = <<<<"1", ".", "1">>, <<"1", ".", "2">>, <<"2", ".", "1">>>>

\* C8: getKeyInfo(key) on a data source whose handles are open raises nothing; for
\* a key of the current KeyList it returns exactly SourceType, SourceName, Key and
\* FileName, Key being the argument and SourceName the name of the file the key
\* numbers; for every other key it returns the empty mapping.
C8_KeyInfoOrEmpty ==
    (call.op = "getKeyInfo" /\ AllHandlesOpen) =>
        /\ call.raised = "none"
        /\ IF InSeq(call.key, getSourceInfo.ret.KeyList)
           THEN /\ DOMAIN call.ret = {"SourceType", "SourceName", "Key", "FileName"}
                /\ call.ret.SourceType = <<"H", "D", "F", "5">>
                /\ call.ret.Key = call.key
                /\ call.ret.SourceName = sourceName[NatOf(Split(call.key, ".")[1])]
           ELSE call.ret = << >>

\* C8 happens: the key "9.9" on a catalogue of two keys
C8_Witness ==
    /\ call.op = "getKeyInfo"
    /\ call.key = <<"9", ".", "9">>
    /\ sourceNameList = <<NameA1>>
    /\ Len(getSourceInfo.ret.KeyList) = 2
    /\ call.ret = << >>

\* C10 as claimed: isUpdated on a key of the KeyList of a plain file raises
\* nothing, and leaves the file's modification time cached for the key.
C10_IsUpdatedReturns ==
    (/\ call.op = "isUpdated"
     /\ AllHandlesOpen
     /\ InSeq(call.key, getSourceInfo.ret.KeyList)
     /\ sourceNameList[NatOf(Split(call.key, ".")[1])] \in PlainFiles) =>
        /\ call.raised = "none"
        /\ call.key \in DOMAIN lastKeyInfo
        /\ lastKeyInfo[call.key] = disk[sourceNameList[NatOf(Split(call.key, ".")[1])]].mtime

(***************************************************************************)
(* The pure functions, applied to drawn inputs.                            *)
(***************************************************************************)
ShapeInputs == UNION {[1..r -> 1..MaxDim] : r \in 2..MaxRank}

NameChars == {"s", "0", "1"}
FamilyNameInputs == UNION {[1..n -> NameChars] : n \in 1..MaxNameLen}

\* _to_index_mode(_to_slice_mode(k, shape), shape)
IndexRoundTrip ==
    /\ call.op = "none"
    /\ \E shape \in ShapeInputs : \E k \in 0..(Product(LeadingDims(shape)) - 1) :
         call' = [op |-> "_to_slice_mode", shape |-> shape, single_idx |-> k,
                  slice_idx |-> _to_slice_mode(k, shape),
                  single_index |-> _to_index_mode(_to_slice_mode(k, shape), shape)]
    /\ UNCHANGED dsVars

\* get_family_pattern([name1, name2]) on two sibling names of one length
FamilyPattern ==
    /\ call.op = "none"
    /\ \E name1 \in FamilyNameInputs : \E name2 \in FamilyNameInputs :
         /\ Len(name1) = Len(name2)
         /\ call' = [op |-> "get_family_pattern", filelist |-> <<name1, name2>>,
                     ret |-> get_family_pattern(<<name1, name2>>)]
    /\ UNCHANGED dsVars

(***************************************************************************)
(* NexusTools.getScannedPositioners.  A title is the sequence of its       *)
(* tokens, title.split(); a group is present or not and holds items in the *)
(* order h5py iterates them; an item is a group, a dataset of one value    *)
(* ("scalar") or a dataset of more than one value ("array").               *)
(***************************************************************************)
\* ord(c) of the characters the names and paths are made of
Ord(c) ==
    IF c = "/" THEN 47 ELSE IF c = "B" THEN 66 ELSE IF c = "a" THEN 97 ELSE IF c = "b" THEN 98
    ELSE IF c = "c" THEN 99 ELSE IF c = "f" THEN 102 ELSE IF c = "m" THEN 109
    ELSE IF c = "n" THEN 110 ELSE IF c = "p" THEN 112 ELSE 115
\* str.casefold of one character
CasefoldChar(c) == IF c = "B" THEN "b" ELSE c

\* the order of Python on lists of code points
RECURSIVE LexLess(_, _)
LexLess(a, b) ==
    IF a = <<>> THEN b # <<>>
    ELSE IF b = <<>> THEN FALSE
    ELSE IF a[1] # b[1] THEN a[1] < b[1]
    ELSE LexLess(Tail(a), Tail(b))

StrLess(a, b) == LexLess([i \in 1..Len(a) |-> Ord(a[i])], [i \in 1..Len(b) |-> Ord(b[i])])
CasefoldLess(a, b) ==
    LexLess([i \in 1..Len(a) |-> Ord(CasefoldChar(a[i]))], [i \in 1..Len(b) |-> Ord(CasefoldChar(b[i]))])

\* a faulty variant: the candidates are sorted with capitals first
RECURSIVE SortCodePoints(_)
InsertCodePoints(sorted, key) ==
    LET n == Cardinality({i \in 1..Len(sorted) : ~StrLess(key, sorted[i])})
    IN SubSeq(sorted, 1, n) \o <<key>> \o SubSeq(sorted, n + 1, Len(sorted))
SortCodePoints(scanned) ==
    IF scanned = <<>> THEN <<>>
    ELSE InsertCodePoints(SortCodePoints(SubSeq(scanned, 1, Len(scanned) - 1)), scanned[Len(scanned)])

\* line 677: scanned.sort(key=str.casefold), a stable sort
RECURSIVE SortCasefold(_)
InsertCasefold(sorted, key) ==
    LET n == Cardinality({i \in 1..Len(sorted) : ~CasefoldLess(key, sorted[i])})
    IN SubSeq(sorted, 1, n) \o <<key>> \o SubSeq(sorted, n + 1, Len(sorted))
SortCasefold(scanned) ==
    IF scanned = <<>> THEN <<>>
    ELSE InsertCasefold(SortCasefold(SubSeq(scanned, 1, Len(scanned) - 1)), scanned[Len(scanned)])

\* line 687: indices.sort() on the pairs (position, key)
PairLess(p, q) == p[1] < q[1] \/ (p[1] = q[1] /\ StrLess(p[2], q[2]))
RECURSIVE SortIndices(_)
InsertIndices(sorted, pair) ==
    LET n == Cardinality({i \in 1..Len(sorted) : ~PairLess(pair, sorted[i])})
    IN SubSeq(sorted, 1, n) \o <<pair>> \o SubSeq(sorted, n + 1, Len(sorted))
SortIndices(indices) ==
    IF indices = <<>> THEN <<>>
    ELSE InsertIndices(SortIndices(SubSeq(indices, 1, Len(indices) - 1)), indices[Len(indices)])

\* posixpath.basename(key)
RECURSIVE Basename(_)
Basename(key) ==
    IF key = <<>> \/ key[Len(key)] = "/" THEN <<>>
    ELSE Basename(SubSeq(key, 1, Len(key) - 1)) \o <<key[Len(key)]>>

\* item.name of the items of the measurement and of the positioners group
MeasurementPath == <<"/", "m", "/">>
PositionersPath == <<"/", "p", "/">>
ItemNames(path, items) == [i \in 1..Len(items) |-> path \o items[i].key]

IsDatasetItem(item) == item.kind \in {"scalar", "array"}
\* hasattr(item, "size") and item.size > 1
IsLong(item) == item.kind = "array"
HasKey(items, key) == \E i \in 1..Len(items) : items[i].key = key

\* lines 644-664: the candidates before the title is looked at
ScannedFromGroups(measurement, positioners) ==
    LET motors == SelectSeq(positioners.items, IsDatasetItem)
        IsMotor(item) == HasKey(motors, item.key)
        IsLongMotor(item) == HasKey(motors, item.key) /\ IsLong(item)
        IsLongDataset(item) == IsDatasetItem(item) /\ IsLong(item)
        named == SelectSeq(measurement.items, IsMotor)
        moved == IF Len(named) > 1 THEN SelectSeq(measurement.items, IsLongMotor) ELSE named
    IN IF ~positioners.present THEN <<>>
       ELSE IF moved # <<>> THEN ItemNames(MeasurementPath, moved)
       ELSE ItemNames(PositionersPath, SelectSeq(positioners.items, IsLongDataset))

\* "fscan " in title: the word ends a token that is followed by a blank
HasFscan(tokens) == \E i \in 1..(Len(tokens) - 1) : tokens[i] = <<"f", "s", "c", "a", "n">>

\* lines 666-671: the datasets of measurement named in the title are added
ScannedWithTitle(tokens, measurement, scanned) ==
    LET IsNamed(item) == IsDatasetItem(item) /\ InSeq(item.key, tokens)
    IN IF tokens # <<>> /\ (scanned = <<>> \/ HasFscan(tokens))
       THEN scanned \o ItemNames(MeasurementPath, SelectSeq(measurement.items, IsNamed))
       ELSE scanned

\* lines 679-688: the candidates named in the title first, at the position of
\* their token
OrderByTitle(tokens, scanned) ==
    LET offset == Len(tokens) + Len(scanned)
        indices == [i \in 1..Len(scanned) |->
                      IF InSeq(Basename(scanned[i]), tokens)
                      THEN <<IndexOf(Basename(scanned[i]), tokens), scanned[i]>>
                      ELSE <<offset + IndexOf(scanned[i], scanned), scanned[i]>>]
        sorted == SortIndices(indices)
    IN [i \in 1..Len(sorted) |-> sorted[i][2]]

\* lines 673-688: the sorting, under Python newer than 3.3
SortScanned(tokens, scanned) ==
    IF Len(scanned) > 1
    THEN IF tokens # <<>> THEN OrderByTitle(tokens, SortCasefold(scanned)) ELSE SortCasefold(scanned)
    ELSE scanned

\* getScannedPositioners(h5file, path) for the title, the measurement group and
\* the positioners group of the entry
getScannedPositioners(tokens, measurement, positioners) ==
    IF ~measurement.present THEN <<>>
    ELSE SortScanned(tokens, ScannedWithTitle(tokens, measurement,
                                              ScannedFromGroups(measurement, positioners)))

\* the names of the items drawn, in the order h5py iterates them
ItemKeys == <<<<"B">>, <<"a">>, <<"c">>>>
ItemsOf(kinds) ==
    LET IsThere(item) == item.kind # "absent"
    IN SelectSeq([i \in 1..Len(ItemKeys) |-> [key |-> ItemKeys[i], kind |-> kinds[i]]], IsThere)
NoGroup == [present |-> FALSE, items |-> <<>>]
\* the measurement groups drawn: none, or each name absent, a dataset of one
\* value or of more; the first name may also be a group
MeasurementInputs ==
    {NoGroup} \cup
    {[present |-> TRUE, items |-> ItemsOf(kinds)] :
       kinds \in {k \in [1..Len(ItemKeys) -> {"absent", "group", "scalar", "array"}] :
                    \A i \in 2..Len(ItemKeys) : k[i] # "group"}}
PositionersInputs ==
    {NoGroup} \cup
    {[present |-> TRUE, items |-> ItemsOf(kinds)] :
       kinds \in [1..Len(ItemKeys) -> {"absent", "scalar", "array"}]}
\* the titles drawn: up to MaxTokens tokens, each a name or the word fscan
MaxTokens == 2
TitleTokens == {ItemKeys[i] : i \in 1..Len(ItemKeys)} \cup {<<"f", "s", "c", "a", "n">>}
TitleInputs == UNION {[1..n -> TitleTokens] : n \in 0..MaxTokens}

\* getScannedPositioners on a drawn entry
ScannedPositioners ==
    /\ call.op = "none"
    /\ \E tokens \in TitleInputs : \E measurement \in MeasurementInputs :
       \E positioners \in PositionersInputs :
         call' = [op |-> "getScannedPositioners", tokens |-> tokens, measurement |-> measurement,
                  positioners |-> positioners,
                  ret |-> getScannedPositioners(tokens, measurement, positioners)]
    /\ UNCHANGED dsVars

(***************************************************************************)
(* NexusTools.getMeasurementGroup.  An entry is its default attribute      *)
(* (None when absent, else the name in a tuple) and its children in the    *)
(* order h5py iterates them;                                               *)
(* a child is a dataset or a group with its NX_class and its number of     *)
(* items.                                                                  *)
(***************************************************************************)
IsGroupChild(child) == child.kind = "group"

\* lines 456-480: getNXClassGroups(h5file, entry_path, ["NXdata"], single=False)
getNXClassGroups(children, class) ==
    LET HasClass(child) == IsGroupChild(child) /\ child.nxclass = class
    IN SelectSeq(children, HasClass)

\* lines 598-604: the group with the most items, the first seen winning ties
RECURSIVE MostItemsFrom(_, _, _)
MostItemsFrom(nxdatas, i, measurement) ==
    IF i > Len(nxdatas) THEN measurement
    ELSE IF nxdatas[i].nitems > measurement.nitems THEN MostItemsFrom(nxdatas, i + 1, nxdatas[i])
    ELSE MostItemsFrom(nxdatas, i + 1, measurement)

\* the child of that name, None without one
ChildNamed(children, key) ==
    IF \E i \in 1..Len(children) : children[i].key = key
    THEN children[CHOOSE i \in 1..Len(children) : children[i].key = key]
    ELSE None

\* lines 562-614: getMeasurementGroup(h5file, path) for a path inside the entry
getMeasurementGroup(entry) ==
    LET named == ChildNamed(entry.children, "measurement")
        nxdatas == getNXClassGroups(entry.children, "NXdata")
        group == IF entry.default = None THEN None ELSE ChildNamed(entry.children, entry.default[1])
    IN IF named # None /\ IsGroupChild(named) THEN named
       ELSE IF entry.default = None
       THEN IF nxdatas = <<>> THEN None ELSE MostItemsFrom(nxdatas, 1, nxdatas[1])
       ELSE IF group # None /\ IsGroupChild(group) THEN group
       ELSE None

\* the entries drawn: children d1, d2 and measurement, each absent, a dataset,
\* a plain group or (d1, d2) an NXdata group of up to MaxItems items; the
\* default attribute absent or naming d1, d2 or nothing
MaxItems == 2
ChildKinds(key) ==
    {[key |-> key, kind |-> "absent", nxclass |-> "", nitems |-> 0],
     [key |-> key, kind |-> "dataset", nxclass |-> "", nitems |-> 0],
     [key |-> key, kind |-> "group", nxclass |-> "NXcollection", nitems |-> 1]}
    \cup (IF key = "measurement" THEN {}
          ELSE {[key |-> key, kind |-> "group", nxclass |-> "NXdata", nitems |-> n] : n \in 0..MaxItems})
EntryInputs ==
    {[default |-> default, children |-> SelectSeq(<<d1, d2, m>>, LAMBDA child : child.kind # "absent")] :
       default \in {None, <<"d1">>, <<"d2">>, <<"zz">>}, d1 \in ChildKinds("d1"), d2 \in ChildKinds("d2"),
       m \in ChildKinds("measurement")}

\* getMeasurementGroup on a drawn entry
MeasurementGroup ==
    /\ call.op = "none"
    /\ \E entry \in EntryInputs :
         call' = [op |-> "getMeasurementGroup", entry |-> entry, ret |-> getMeasurementGroup(entry)]
    /\ UNCHANGED dsVars

(***************************************************************************)
(* NexusTools.getMcaList.  A dataset is visited under a path with its name *)
(* relative to that path (the components of the name), its interpretation *)
(* attribute (None when absent, else the value in a tuple) and its shape.  *)
(***************************************************************************)
\* str.lower() of one character and of a text
LowerChar(c) == IF c = "M" THEN "m" ELSE IF c = "C" THEN "c" ELSE IF c = "A" THEN "a" ELSE c
LowerText(text) == [i \in 1..Len(text) |-> LowerChar(text[i])]
\* sub in text
Contains(sub, text) ==
    \E i \in 0..(Len(text) - Len(sub)) : SubSeq(text, i + 1, i + Len(sub)) = sub

\* lines 274-284: the default ignore list
IgnoreNames ==
    {<<"c", "h", "a", "n", "n", "e", "l", "s">>,
     <<"c", "a", "l", "i", "b", "r", "a", "t", "i", "o", "n">>,
     <<"l", "i", "v", "e", "_", "t", "i", "m", "e">>,
     <<"p", "r", "e", "s", "e", "t", "_", "t", "i", "m", "e">>,
     <<"e", "l", "a", "p", "s", "e", "d", "_", "t", "i", "m", "e">>,
     <<"i", "0">>,
     <<"i", "t">>,
     <<"i", "0", "_", "t", "o", "_", "f", "l", "u", "x", "_", "f", "a", "c", "t", "o", "r">>,
     <<"i", "t", "_", "t", "o", "_", "f", "l", "u", "x", "_", "f", "a", "c", "t", "o", "r">>,
     <<"t", "i", "m", "e">>,
     <<"e", "n", "e", "r", "g", "y">>}

TextMca == <<"m", "c", "a">>
TextSpectrum == <<"s", "p", "e", "c", "t", "r", "u", "m">>
TextMeasurement == <<"m", "e", "a", "s", "u", "r", "e", "m", "e", "n", "t">>

\* posixpath.basename and posixpath.dirname on the components of a name
LastComponent(name) == IF name = <<>> THEN <<>> ELSE name[Len(name)]
ParentName(name) == IF name = <<>> THEN <<>> ELSE SubSeq(name, 1, Len(name) - 1)

\* lines 294-299: the interpretation attribute says spectrum, or something else
SaysSpectrum(obj) == obj.interpretation = <<TextSpectrum>>
SaysOther(obj) == obj.interpretation # None /\ ~SaysSpectrum(obj)

\* lines 300-307: the name of the dataset or of its parent group starts with mca
NameBased(obj) ==
    /\ ~SaysSpectrum(obj) /\ ~SaysOther(obj)
    /\ \/ StartsWith(LowerText(LastComponent(obj.name)), TextMca)
       \/ StartsWith(LowerText(LastComponent(ParentName(obj.name))), TextMca)

\* lines 309-321: a counter of the measurement group marked as spectrum: it has
\* one dimension and as many elements as a scanned positioner
IsMislabeledCounter(obj, posnames) ==
    /\ SaysSpectrum(obj)
    /\ \E i \in 1..Len(obj.name) : Contains(TextMeasurement, obj.name[i])
    /\ Len(obj.shape) = 1
    /\ \E i \in 1..Len(posnames) : posnames[i] = Product(obj.shape)

\* lines 291-338: visit_function(name, obj): the dataset is appended
IsMcaDataset(path, obj, posnames) ==
    /\ SaysSpectrum(obj) \/ NameBased(obj)
    /\ ~IsMislabeledCounter(obj, posnames)
    /\ LowerText(LastComponent(path \o obj.name)) \notin IgnoreNames
    /\ Len(obj.shape) > 0
    /\ obj.shape[Len(obj.shape)] > 1

\* lines 247-341: getMcaList(h5file, path): the names of the datasets under
\* the path that are taken as MCA; posnames holds the sizes of the scanned
\* positioners of the entry
getMcaList(path, datasets, posnames) ==
    LET Taken(obj) == IsMcaDataset(path, obj, posnames)
        taken == SelectSeq(datasets, Taken)
    IN [i \in 1..Len(taken) |-> path \o taken[i].name]

\* the names drawn
TextEntry == <<"e">>
TextMcaGroup == <<"M", "c", "a">>
TextDet == <<"d", "e", "t">>
TextData == <<"d", "a", "t", "a">>
TextChannels == <<"C", "h", "a", "n", "n", "e", "l", "s">>
\* the paths visited: the entry, its measurement group, a group named Mca
McaPathInputs == {<<TextEntry>>, <<TextEntry, TextMeasurement>>, <<TextEntry, TextMcaGroup>>}
\* the datasets drawn: directly under the path or in a group below it
McaDatasetInputs ==
    {[name |-> parent \o <<base>>, interpretation |-> interpretation, shape |-> shape] :
       parent \in {<<>>, <<TextMeasurement>>, <<TextMcaGroup>>, <<TextDet>>},
       base \in {TextMcaGroup, TextData, TextChannels},
       interpretation \in {None, <<TextSpectrum>>, <<TextData>>},
       shape \in UNION {[1..r -> 1..MaxDim] : r \in 0..2}}
\* the sizes of the scanned positioners
PosnamesInputs == {<<>>, <<2>>, <<3, 2>>}

\* _to_slice_mode(_to_index_mode(s, shape), shape) for the coordinates s of a
\* spectrum of the shape
SliceRoundTrip ==
    /\ call.op = "none"
    /\ \E shape \in ShapeInputs : \E s \in Coordinates(shape) :
         call' = [op |-> "_to_index_mode", shape |-> shape, slice_idx |-> s,
                  single_index |-> _to_index_mode(s, shape),
                  back |-> _to_slice_mode(_to_index_mode(s, shape), shape)]
    /\ UNCHANGED dsVars

\* getMcaList on a path holding one drawn dataset
McaList ==
    /\ call.op = "none"
    /\ \E path \in McaPathInputs : \E obj \in McaDatasetInputs : \E posnames \in PosnamesInputs :
         call' = [op |-> "getMcaList", path |-> path, obj |-> obj, posnames |-> posnames,
                  ret |-> getMcaList(path, <<obj>>, posnames)]
    /\ UNCHANGED dsVars

(***************************************************************************)
(* NexusTools.getMcaObjectPaths.  A file holds sites: groups with a member *)
(* named mca (a dataset, a soft link or an external link), the members     *)
(* beside it, possibly a member named info, and above the group a          *)
(* grandparent with its NX_class and its own members.  A path names a      *)
(* member: <<file, site, place, key>>.  A call runs frame by frame: one    *)
(* frame for the call and one for each recursive call on a link target.    *)
(***************************************************************************)
\* lines 375-383
mcaKeys ==
    {"channels", "calibration", "live_time", "preset_time", "elapsed_time",
     "i0", "it", "i0_to_flux_factor", "it_to_flux_factor"}

McaPathOf(frame) == <<frame[1], frame[2], "parent", "mca">>
SiteOf(h5, frame) == h5[frame[1]].sites[frame[2]]

\* a faulty variant: the grandparent is searched whatever its class
SearchPlacesAnyClass(h5, frame) ==
    <<"parent">>
    \o (IF SiteOf(h5, frame).info.kind # "absent" THEN <<"info">> ELSE << >>)
    \o <<"grand">>

\* lines 407-424: the groups searched, in order
SearchPlaces(h5, frame) ==
    <<"parent">>
    \o (IF SiteOf(h5, frame).info.kind # "absent" THEN <<"info">> ELSE << >>)
    \o (IF h5[frame[1]].detector THEN <<"grand">> ELSE << >>)

\* line 428-429: group.items() of a searched group
ItemsAt(h5, frame, place) ==
    IF place = "parent" THEN SiteOf(h5, frame).parent
    ELSE IF place = "info" THEN SiteOf(h5, frame).info.keys
    ELSE h5[frame[1]].grand

\* line 428: a member named info that is a dataset has no items()
SearchRaises(h5, frame) == SiteOf(h5, frame).info.kind = "dataset"

\* lines 426-434: the loop over the search paths from place i on
RECURSIVE SearchFrom(_, _, _, _)
SearchFrom(h5, frame, i, mca) ==
    LET places == SearchPlaces(h5, frame) IN
    IF i > Len(places) THEN mca
    ELSE LET found == (ItemsAt(h5, frame, places[i]) \cap mcaKeys) \ DOMAIN mca
             here == [key \in found |->
                        [prefix |-> << >>, path |-> <<frame[1], frame[2], places[i], key>>]]
         IN SearchFrom(h5, frame, i + 1, mca @@ here)

\* lines 373-434: the dictionary of one frame before links are looked at
Searched(h5, frame) ==
    LET self == [prefix |-> << >>, path |-> McaPathOf(frame)]
    IN SearchFrom(h5, frame, 1, [key \in {"counts", "target"} |-> self])

\* lines 436-452: nothing was found and the path is a link that can be followed
FollowsLink(h5, frame) ==
    /\ ~SearchRaises(h5, frame)
    /\ DOMAIN Searched(h5, frame) = {"counts", "target"}
    /\ \/ SiteOf(h5, frame).kind = "soft"
       \/ SiteOf(h5, frame).kind = "external" /\ h5[SiteOf(h5, frame).to[1]].exists

\* lines 441-453: what frame i returns when the frame above it returned mca
RECURSIVE Unwind(_, _, _, _)
Unwind(h5, frames, i, mca) ==
    IF i = 0 THEN mca
    ELSE LET site == SiteOf(h5, frames[i])
             named == IF site.kind = "external"
                      THEN [key \in DOMAIN mca |->
                              [prefix |-> <<site.to[1]>> \o mca[key].prefix, path |-> mca[key].path]]
                      ELSE mca
             back == [key \in DOMAIN named |->
                        IF key = "counts"
                        THEN [prefix |-> << >>, path |-> McaPathOf(frames[i])]
                        ELSE named[key]]
         IN Unwind(h5, frames, i - 1, back)

\* the interpreter's recursion limit, scaled down
MaxDepth == 3

\* the files drawn: F with two sites, G (reached by external links) with one
InfoInputs ==
    {[kind |-> "absent", keys |-> {}], [kind |-> "dataset", keys |-> {}],
     [kind |-> "group", keys |-> {}], [kind |-> "group", keys |-> {"channels", "it"}]}
FirstSites ==
    {[kind |-> k[1], to |-> k[2], parent |-> parent, info |-> info] :
       k \in {<<"dataset", << >>>>, <<"soft", <<"F", 1>>>>, <<"soft", <<"F", 2>>>>,
              <<"external", <<"G", 1>>>>},
       parent \in {{}, {"live_time", "data"}, {"channels", "live_time"}},
       info \in InfoInputs}
SecondSites ==
    {[kind |-> k[1], to |-> k[2], parent |-> parent, info |-> [kind |-> "absent", keys |-> {}]] :
       k \in {<<"dataset", << >>>>, <<"soft", <<"F", 1>>>>, <<"soft", <<"F", 2>>>>},
       parent \in {{}, {"live_time", "data"}}}
FileInputsH5 ==
    {[name \in {"F", "G"} |->
        IF name = "F"
        THEN [exists |-> TRUE, sites |-> <<s1, s2>>, detector |-> detector, grand |-> grand]
        ELSE [exists |-> exists,
              sites |-> <<[kind |-> "dataset", to |-> << >>, parent |-> other,
                           info |-> [kind |-> "absent", keys |-> {}]]>>,
              detector |-> FALSE, grand |-> {}]] :
       s1 \in FirstSites, s2 \in SecondSites, detector \in BOOLEAN,
       grand \in {{}, {"channels", "it"}}, exists \in BOOLEAN, other \in {{}, {"channels"}}}

\* getMcaObjectPaths(h5file, mcaPath) is called
McaObjectPaths ==
    /\ call.op = "none"
    /\ \E h5 \in FileInputsH5 : \E site \in 1..2 :
         call' = [op |-> "getMcaObjectPaths", h5 |-> h5, frames |-> <<<<"F", site>>>>,
                  running |-> TRUE, raised |-> "none", ret |-> None]
    /\ UNCHANGED dsVars

RunningPaths == call.op = "getMcaObjectPaths" /\ call.running
TopFrame == call.frames[Len(call.frames)]

\* lines 446, 452: the recursive call on the target of the link
McaObjectPathsFollow ==
    /\ RunningPaths
    /\ FollowsLink(call.h5, TopFrame)
    /\ Len(call.frames) < MaxDepth
    /\ call' = [call EXCEPT !.frames = Append(@, SiteOf(call.h5, TopFrame).to)]
    /\ UNCHANGED dsVars

\* the recursive call does not fit on the interpreter's stack
McaObjectPathsOverflow ==
    /\ RunningPaths
    /\ FollowsLink(call.h5, TopFrame)
    /\ Len(call.frames) = MaxDepth
    /\ call' = [call EXCEPT !.running = FALSE, !.raised = "RecursionError"]
    /\ UNCHANGED dsVars

\* lines 428, 454: the innermost call raises or returns, and so do its callers
McaObjectPathsReturn ==
    /\ RunningPaths
    /\ ~FollowsLink(call.h5, TopFrame)
    /\ call' = IF SearchRaises(call.h5, TopFrame)
               THEN [call EXCEPT !.running = FALSE, !.raised = "AttributeError"]
               ELSE [call EXCEPT !.running = FALSE,
                                 !.ret = Unwind(call.h5, call.frames, Len(call.frames) - 1,
                                                Searched(call.h5, TopFrame))]
    /\ UNCHANGED dsVars


InitPure ==
    /\ pc = "new"
    /\ sourceName = <<>>
    /\ sourceNameList = <<>>
    /\ sourceObjectList = <<>>
    /\ lastKeyInfo = << >>
    /\ disk = [name \in PlainFiles \cup Segments |-> [entries |-> 1, mtime |-> 0]]
    /\ adoptedOpen = TRUE
    /\ cntTable = NoCounters
    /\ call = [op |-> "none"]

NextPure ==
    \/ IndexRoundTrip \/ SliceRoundTrip \/ FamilyPattern
    \/ ScannedPositioners \/ MeasurementGroup \/ McaList

SpecPure == InitPure /\ [][NextPure]_vars

NextLinks ==
    McaObjectPaths \/ McaObjectPathsFollow \/ McaObjectPathsOverflow \/ McaObjectPathsReturn

SpecLinks == InitPure /\ [][NextLinks]_vars

\* C1: for a shape of rank >= 2 with positive sizes and 0 <= k < the product of the
\* leading sizes, _to_index_mode(_to_slice_mode(k, shape), shape) is k.
C1_IndexOfSliceIsIdentity ==
    (/\ call.op = "_to_slice_mode"
     /\ Len(call.shape) >= 2
     /\ 0 <= call.single_idx /\ call.single_idx < Product(LeadingDims(call.shape))) =>
        call.single_index = call.single_idx

\* C1 happens: index 3 of shape (4, 5, n) is handled in a model whose sizes reach
\* 3 as index 5 of shape (3, 3, n), the slice [1, 2]
C1_Witness ==
    /\ call.op = "_to_slice_mode"
    /\ Len(call.shape) = 3 /\ call.shape[1] = 3 /\ call.shape[2] = 3
    /\ call.single_idx = 5
    /\ call.slice_idx = <<1, 2>>
    /\ call.single_index = 5

\* the two names agree outside the places a..b, which hold a whole run of decimal
\* digits in both, and differ inside
OneDigitRunDiffers(name1, name2, a, b) ==
    /\ \A i \in 1..Len(name1) : (i < a \/ i > b) => name1[i] = name2[i]
    /\ \A i \in a..b : name1[i] \in Digits /\ name2[i] \in Digits
    /\ \E i \in a..b : name1[i] # name2[i]
    /\ a > 1 => name1[a - 1] \notin Digits
    /\ b < Len(name1) => name1[b + 1] \notin Digits

\* %0Nd for N > 1, %Nd otherwise
Placeholder(N) == IF N > 1 THEN <<"%", "0">> \o Dec(N) \o <<"d">> ELSE <<"%">> \o Dec(N) \o <<"d">>

\* C6 as claimed: for two names of one length that differ only inside one run of N
\* digits, get_family_pattern returns the text before the run, the placeholder of
\* width N and the text after the run.
C6_PatternAroundDigitRun ==
    call.op = "get_family_pattern" =>
        LET name1 == call.filelist[1]
            name2 == call.filelist[2]
        IN \A a \in 1..Len(name1) : \A b \in a..Len(name1) :
             OneDigitRunDiffers(name1, name2, a, b) =>
                call.ret = SubSeq(name1, 1, a - 1) \o Placeholder(b - a + 1)
                             \o SubSeq(name1, b + 1, Len(name1))

(***************************************************************************)
(* Claims about getDataObject with the mca role.                           *)
(***************************************************************************)
IsMcaCall == call.op = "getDataObject" /\ "mca" \in DOMAIN call.selection
McaMode == call.selection["mcaselectiontype"]
McaShape == call.content.mca.shape
Channels == McaShape[Len(McaShape)]
\* the number of spectra of the cube: the product of its leading dimensions
Spectra == Product(LeadingDims(McaShape))
IsReduction == Lower(McaMode.prefix) \in {"avg", "average", "sum"}

\* the channels dataset of the MCA, or 0..N-1 without one
ExpectedChannels ==
    IF RoleRead(call.content.mca, "channels") THEN Array(<<Channels>>, [i \in 1..Channels |-> 100 + i])
    ELSE Arange(Channels)

\* C2 as claimed: index(k) on a cube of rank >= 2 with 0 <= k < the number of
\* spectra returns y = [data[c_0, ..., c_(R-2), :]] for c = toSlice(k, shape) and
\* x = [channels], whether or not the entry has positioners (here even without
\* any live_time).
C2_IndexReturnsSpectrum ==
    (/\ IsMcaCall
     /\ call.raised = "none"
     /\ McaMode.prefix = "index"
     /\ Len(McaMode.items) = 1
     /\ Len(McaShape) >= 2
     /\ McaMode.items[1] \in 0..(Spectra - 1)
     /\ call.content.mca.live = "absent")
    => /\ call.output.y = <<IndexAll(Cube(McaShape), _to_slice_mode(McaMode.items[1], McaShape))>>
       /\ call.output.x = <<ExpectedChannels>>

\* channel j of the sum of all the spectra of the cube
SummedChannel(j) == SumSeq([n \in 1..Spectra |-> Cube(McaShape).flat[(n - 1) * Channels + j]])

\* C3: under avg, average or sum the spectrum returned (the roles of the MCA
\* being read) is the element-wise sum over all leading dimensions, divided by
\* their product unless the mode is sum; its length is the last dimension.
C3_ReductionIsSumOverLeading ==
    (IsMcaCall /\ call.raised = "none" /\ IsReduction /\ ~RolesRaise(call.content.mca))
    => /\ call.output.y = <<[shape |-> <<Channels>>,
                             flat |-> [j \in 1..Channels |-> SummedChannel(j)],
                             div |-> IF Lower(McaMode.prefix) = "sum" THEN 1 ELSE Spectra]>>
       /\ call.output.x = <<ExpectedChannels>>

\* an average over two leading dimensions came back
C3_Witness ==
    /\ IsMcaCall
    /\ McaMode.prefix \in {"avg", "AVG"}
    /\ McaShape = <<2, 3, NChannels>>
    /\ call.output.y # << >>
    /\ call.output.y[1].div = 6

\* C4 as claimed: under avg/average a live_time that is a scalar comes back
\* unchanged and one with a value per spectrum comes back as its sum over the
\* number of spectra; under sum the array comes back as its sum and the scalar
\* unchanged.
C4_LiveTimeUnderReduction ==
    (/\ IsMcaCall /\ call.raised = "none" /\ IsReduction
     /\ call.content.mca.live \in {"scalar", "array"}
     /\ RoleRead(call.content.mca, "live_time") /\ ~RolesRaise(call.content.mca))
    => LET live == call.output.info["McaLiveTime"]
           given == LiveTimeOf(call.content.mca.live, McaShape)
       IN /\ live.shape = << >>
          /\ IF call.content.mca.live = "scalar"
             THEN live.flat[1] = given.flat[1] * live.div
             ELSE IF Lower(McaMode.prefix) = "sum"
             THEN live.flat[1] = SumSeq(given.flat) * live.div
             ELSE live.flat[1] * Spectra = SumSeq(given.flat) * live.div

(***************************************************************************)
(* Claims about getDataObject without the mca role.                        *)
(***************************************************************************)
IsScanCall == call.op = "getDataObject" /\ "mca" \notin DOMAIN call.selection
RolesPresent == {cnt \in {"y", "x", "m"} : RolePresent(cnt, call.selection)}
\* the dataset a role names
RoleCounter(cnt) == call.content.counters[call.selection[cnt][1] + 1]
Shortest ==
    CHOOSE n \in {Size(RoleCounter(cnt)) : cnt \in RolesPresent} :
        \A cnt \in RolesPresent : n <= Size(RoleCounter(cnt))

\* C5 as claimed: on a 1D selection with y present (the roles naming whole
\* datasets of one dimension) every array of y, x and m comes back with the
\* leading elements of its dataset, as many as the shortest
\* of the datasets of the roles present has, for every combination of lengths.
C5_ArraysCutToShortest ==
    (/\ IsScanCall
     /\ call.raised = "none"
     /\ Upper(call.selection["selectiontype"]) \in {<<"S", "C", "A", "N">>, <<"M", "C", "A">>}
     /\ "y" \in RolesPresent
     /\ \A cnt \in RolesPresent :
           call.selection[TypeKey(cnt)][1].prefix = "full" /\ Len(RoleCounter(cnt).shape) = 1)
    => /\ call.output.y = <<Truncate(RoleCounter("y"), Shortest)>>
       /\ "x" \in RolesPresent => call.output.x = <<Truncate(RoleCounter("x"), Shortest)>>
       /\ "m" \in RolesPresent => call.output.m = <<Truncate(RoleCounter("m"), Shortest)>>

\* the selection type is none of SCAN and MCA in any case, "2D" and "3D"
IsUnsupported(selectiontype) ==
    /\ Upper(selectiontype) \notin {<<"S", "C", "A", "N">>, <<"M", "C", "A">>}
    /\ selectiontype \notin {<<"2", "D">>, <<"3", "D">>}

\* the file and the entry of the call were found
CallResolved ==
    /\ Resolve(call.key, call.selection, call.keysIsList).raised = "none"
    /\ KeyInfoAt(Resolve(call.key, call.selection, call.keysIsList)).raised = "none"

\* C9: a selection without the mca role whose selection type is none of SCAN,
\* MCA (in any case), "2D" and "3D" gets no record: getDataObject raises, and
\* once the file and the entry are found what it raises is the "Unsupported
\* selection type" error.
C9_UnsupportedTypeRaises ==
    (IsScanCall /\ IsUnsupported(call.selection["selectiontype"]))
    => /\ call.raised # "none"
       /\ call.output = << >>
       /\ CallResolved => call.raised = "TypeError: Unsupported selection type"

\* BOGUS was asked of an entry that exists, with counters to read
C9_Witness ==
    /\ IsScanCall
    /\ call.selection["selectiontype"] = <<"B", "O", "G", "U", "S">>
    /\ "y" \in RolesPresent
    /\ CallResolved
    /\ call.raised = "TypeError: Unsupported selection type"

(***************************************************************************)
(* Claims about the constructor and refresh.                               *)
(***************************************************************************)
\* C11 as claimed: after the constructor or a refresh() that returned without
\* error every handle of the catalogue is open, the handles adopted from a File
\* object of the caller included.
C11_HandlesOpenAfterRefresh ==
    (call.op \in {"__init__", "refresh"} /\ call.raised = "none") => AllHandlesOpen

\* the list names a segment of a family set and a plain file
IsMixed(names) ==
    /\ \E i \in 1..Len(names) : names[i] \in Segments
    /\ \E i \in 1..Len(names) : names[i] \in PlainFiles \cup {FileA1}

\* C12 as claimed: the constructor and refresh on a list that names both a
\* segmented and a plain file raise the "mixing segmented and non-segmented"
\* error, whatever the order of the names.
C12_MixedListRaisesMixing ==
    /\ (call.op = "__init__" /\ IsMixed(call.nameInput))
          => call.raised = "IOError: Mixing segmented and non-segmented"
    /\ (call.op = "refresh" /\ IsMixed(sourceNameList))
          => call.raised = "IOError: Mixing segmented and non-segmented"

\* C13 as claimed: the constructor on one name that is no file on disk completes
\* with a handle for the name when the name holds '%' or starts with "tiled" or
\* "http", and raises "File ... does not exists" with no handle otherwise.
C13_MissingNameAccepted ==
    (/\ call.op = "__init__"
     /\ Len(call.nameInput) = 1
     /\ ~IsFile(call.nameInput[1])
     /\ ~Exists(call.nameInput[1]))
    => IF HasPercent(call.nameInput[1]) \/ IsRemote(call.nameInput[1])
       THEN /\ call.raised = "none"
            /\ Len(sourceObjectList) = 1
            /\ sourceObjectList[1].name = call.nameInput[1]
       ELSE /\ call.raised = "IOError: File does not exists"
            /\ sourceObjectList = << >>

(***************************************************************************)
(* Claims about exceptions under the mca role.                             *)
(***************************************************************************)
\* the selection text does not fit the cube: "index" without exactly one
\* integer, "slice" without one integer per leading dimension, or a cube of one
\* dimension that cannot be indexed at all
McaTextMisfits ==
    \/ McaMode.prefix = "index" /\ Len(McaMode.items) # 1
    \/ McaMode.prefix = "slice" /\ Len(McaMode.items) # Len(McaShape) - 1
    \/ McaMode.prefix \in {"index", "slice"} /\ Len(McaShape) < 2

\* the index asked for is no spectrum of the cube
McaIndexOutOfRange ==
    /\ McaMode.prefix = "index" /\ Len(McaMode.items) = 1 /\ Len(McaShape) >= 2
    /\ McaMode.items[1] >= Spectra

\* reading the roles or reducing the cube raised
McaTryRaised == RolesRaise(call.content.mca) \/ McaTextMisfits \/ McaIndexOutOfRange

\* the record carries the title, the selection and the key info
InfoPopulated ==
    /\ {"title", "selection", "SourceType", "SourceName", "Key", "FileName"} \subseteq DOMAIN call.output.info
    /\ call.output.info["title"] = call.content.title
    /\ call.output.info["selection"] = call.selection

\* C14: under the mca role nothing raised while the roles are read or the cube
\* is reduced reaches the caller: getDataObject returns the record with its info
\* populated, and with x and y left None when something was raised.
C14_McaExceptionsReturnRecord ==
    (IsMcaCall /\ CallResolved)
    => /\ call.raised = "none"
       /\ InfoPopulated
       /\ McaTryRaised => (call.output.x = << >> /\ call.output.y = << >>)

\* an external reference could not be split and the record came back without data
C14_Witness ==
    /\ IsMcaCall
    /\ call.content.mca.refs["live_time"] = "external"
    /\ call.content.mca.refs["channels"] = "local"
    /\ call.raised = "none"
    /\ InfoPopulated
    /\ call.output.x = << >> /\ call.output.y = << >>

\* the text of the role's selection does not fit its dataset
RoleTextMisfits(cnt) ==
    LET sel == call.selection[TypeKey(cnt)][1]
    IN \/ sel.prefix = "index" /\ Len(sel.items) # 1
       \/ sel.prefix = "slice" /\ Len(sel.items) # Len(RoleCounter(cnt).shape) - 1

\* C15 as claimed: an "index(...)" text without exactly one integer, or a
\* "slice(...)" text without one integer for each leading dimension, ends
\* getDataObject with an error raised to the caller and no record, under the
\* mca role as well as under the roles y, x and m.
C15_MisfitTextRaises ==
    /\ (/\ IsMcaCall /\ CallResolved
        /\ \/ McaMode.prefix = "index" /\ Len(McaMode.items) # 1
           \/ McaMode.prefix = "slice" /\ Len(McaMode.items) # Len(McaShape) - 1)
       => (call.raised # "none" /\ call.output = << >>)
    /\ (/\ IsScanCall /\ CallResolved
        /\ ~IsUnsupported(call.selection["selectiontype"])
        /\ \E cnt \in RolesPresent : RoleTextMisfits(cnt))
       => (call.raised # "none" /\ call.output = << >>)

\* the role's dataset exists, in the file or in the second file
RoleResolves(role) ==
    RoleReported(call.content.mca, role) /\ call.content.mca.refs[role] \in {"local", "external"}

\* C16 as claimed: under the mca role (here with the cube summed or averaged) a
\* role whose path cannot be followed is dropped on its own: the spectrum is
\* still returned in y, a live_time that
\* resolves (in the file or through "filename::path" in the second file) is
\* still reported, x holds the channels dataset when it resolves and 0..N-1
\* otherwise, and the calibration is [0, 1, 0].
C16_UnreachableRoleDropped ==
    (IsMcaCall /\ CallResolved /\ IsReduction)
    => /\ call.raised = "none"
       /\ call.output.y # << >>
       /\ call.output.x = <<IF RoleResolves("channels")
                            THEN Array(<<Channels>>, [i \in 1..Channels |-> 100 + i])
                            ELSE Arange(Channels)>>
       /\ "McaCalib" \in DOMAIN call.output.info
       /\ call.output.info["McaCalib"] = Array(<<3>>, <<0, 1, 0>>)
       /\ RoleResolves("live_time") <=> "McaLiveTime" \in DOMAIN call.output.info

\* a SCAN or MCA selection without mcaselectiontype
IsOneDCall ==
    /\ IsScanCall /\ CallResolved
    /\ Upper(call.selection["selectiontype"]) \in {<<"S", "C", "A", "N">>, <<"M", "C", "A">>}
    /\ "mcaselectiontype" \notin DOMAIN call.selection

\* the role names its whole dataset
TakenWhole(cnt) == call.selection[TypeKey(cnt)][1].prefix = "full"

\* the role's dataset cannot be taken as one dimension: two dimensions longer
\* than 1, more than two dimensions, or a second x axis
RoleNotOneD(cnt) ==
    LET shape == RoleCounter(cnt).shape
    IN \/ Len(shape) = 2 /\ shape[1] > 1 /\ shape[2] > 1
       \/ Len(shape) > 2
       \/ cnt = "x" /\ Len(call.selection["x"]) > 1

\* every array of the list has at most one dimension
AllOneD(arrays) == \A i \in 1..Len(arrays) : Len(arrays[i].shape) <= 1

\* C17: on a SCAN or MCA selection without mcaselectiontype, with the roles
\* naming whole datasets: a dataset of two dimensions, one of them of length 1,
\* comes back flattened; a dataset of two dimensions both longer than 1, or of
\* more than two dimensions, or a second x axis, raises "<ROLE> selection is
\* not 1D" for the first such role in the order y, x, m. Whatever the roles
\* select, no array of y, x or m of a returned 1D record has more than one
\* dimension.
C17_OneDRolesFlattenedOrRaise ==
    IsOneDCall
    => /\ call.raised = "none" => (AllOneD(call.output.y) /\ AllOneD(call.output.x) /\ AllOneD(call.output.m))
       /\ (\A cnt \in RolesPresent : TakenWhole(cnt))
          => /\ ("y" \in RolesPresent /\ RoleNotOneD("y")) => call.raised = NotOneD("y")
             /\ ("x" \in RolesPresent /\ RoleNotOneD("x") /\ ~("y" \in RolesPresent /\ RoleNotOneD("y")))
                => call.raised = NotOneD("x")
             /\ ("m" \in RolesPresent /\ RoleNotOneD("m")
                 /\ \A cnt \in RolesPresent \ {"m"} : ~RoleNotOneD(cnt))
                => call.raised = NotOneD("m")
             /\ (\A cnt \in RolesPresent : ~RoleNotOneD(cnt)) => call.raised = "none"
             /\ \A cnt \in RolesPresent :
                  (RolesPresent = {cnt} /\ ~RoleNotOneD(cnt))
                  => call.output[cnt] = <<Flatten(RoleCounter(cnt))>>

\* a dataset of shape (1, n), n > 1, named whole by y came back with n elements
C17_Witness ==
    /\ IsOneDCall
    /\ RolesPresent = {"y"} /\ TakenWhole("y")
    /\ Len(RoleCounter("y").shape) = 2
    /\ RoleCounter("y").shape[1] = 1 /\ RoleCounter("y").shape[2] > 1
    /\ call.raised = "none"
    /\ call.output.y = <<Flatten(RoleCounter("y"))>>

\* the selection names a file of the source name list and the root or one of
\* the root children of that file
SelectionNamesEntry ==
    /\ call.op = "getDataObject"
    /\ "sourcename" \in DOMAIN call.selection
    /\ InSeq(call.selection["sourcename"], sourceNameList)
    /\ \/ call.selection["entry"] = <<"/">>
       \/ InSeq(Tail(call.selection["entry"]),
                RootKeys(sourceObjectList[IndexOf(call.selection["sourcename"], sourceNameList) + 1]))

\* the position, from 1, of the file named by the selection and of its entry
FilePosition == IndexOf(call.selection["sourcename"], sourceNameList) + 1
EntryPosition ==
    IF call.selection["entry"] = <<"/">> THEN 1
    ELSE IndexOf(Tail(call.selection["entry"]), RootKeys(sourceObjectList[FilePosition])) + 1

\* the keys a caller may pass along with the selection
KeysTried == {FormatKey(i, j) : i \in 1..MaxFiles, j \in 1..MaxEntries}

\* C18: when the selection carries sourcename and entry, the file is the one at
\* the position of sourcename in the source name list and the entry the one at
\* the position of the entry among the root children; the info of the returned
\* record (Key, SourceName, FileName) is that of the key made of these two
\* positions, and the key argument changes nothing: a key that disagrees is
\* neither an error nor a different result.
C18_SelectionDecidesKey ==
    SelectionNamesEntry
    => /\ \A key \in KeysTried :
            getDataObject(key, call.selection, call.content, call.keysIsList)
            = [raised |-> call.raised, output |-> call.output]
       /\ call.raised \notin {"ValueError", "ValueError: closed file", "TypeError: not subscriptable"}
       /\ call.raised = "none"
          => /\ call.output.info["Key"] = FormatKey(FilePosition, EntryPosition)
             /\ call.output.info["SourceName"] = sourceName[FilePosition]
             /\ call.output.info["FileName"] = <<"/">>

\* the key named the second file and the selection the second entry of the
\* first: the record is that of key 1.2
C18_Witness ==
    /\ SelectionNamesEntry
    /\ call.key = FormatKey(2, 1)
    /\ FilePosition = 1 /\ EntryPosition = 2
    /\ call.raised = "none"
    /\ call.output.info["Key"] = FormatKey(1, 2)

(***************************************************************************)
(* Claims about the scanned positioners.                                   *)
(***************************************************************************)
\* the candidate's basename is a token of the title, and the place of that token
NamedInTitle(key) == InSeq(Basename(key), call.tokens)
TokenPlace(key) == IndexOf(Basename(key), call.tokens)
\* how often a key occurs in a list
Occurrences(key, list) == Cardinality({i \in 1..Len(list) : list[i] = key})

\* the candidates found in the groups and in the title, before they are sorted
Candidates ==
    IF ~call.measurement.present THEN <<>>
    ELSE ScannedWithTitle(call.tokens, call.measurement,
                          ScannedFromGroups(call.measurement, call.positioners))

\* the entry of the example: title "ascan mot1 0 10 20 1", measurement holding
\* the datasets det1 and mot1
ExampleTitle ==
    <<<<"a", "s", "c", "a", "n">>, <<"m", "o", "t", "1">>, <<"0">>, <<"1", "0">>, <<"2", "0">>, <<"1">>>>
ExampleItems ==
    <<[key |-> <<"d", "e", "t", "1">>, kind |-> "array"], [key |-> <<"m", "o", "t", "1">>, kind |-> "array"]>>

\* C19: getScannedPositioners returns its candidates, each as often as it was
\* found, so ordered that the candidates whose basename is a token of the title
\* come first, in the order of their tokens in the title, and the others follow
\* in case-insensitive lexicographic order of their paths; for the title
\* "ascan mot1 0 10 20 1" and a measurement group holding mot1 and det1 the
\* result is the path of mot1 alone.
C19_ScannedOrderedByTitle ==
    call.op = "getScannedPositioners"
    => /\ \A i, j \in 1..Len(call.ret) :
            i < j => /\ NamedInTitle(call.ret[j]) => NamedInTitle(call.ret[i])
                     /\ (NamedInTitle(call.ret[i]) /\ NamedInTitle(call.ret[j]))
                        => TokenPlace(call.ret[i]) <= TokenPlace(call.ret[j])
                     /\ (~NamedInTitle(call.ret[i]) /\ ~NamedInTitle(call.ret[j]))
                        => ~CasefoldLess(call.ret[j], call.ret[i])
       /\ \A i \in 1..Len(call.ret) :
            Occurrences(call.ret[i], call.ret) = Occurrences(call.ret[i], Candidates)
       /\ Len(call.ret) = Len(Candidates)
       /\ \A positioners \in {NoGroup, [present |-> TRUE, items |-> <<ExampleItems[2]>>]} :
            getScannedPositioners(ExampleTitle, [present |-> TRUE, items |-> ExampleItems], positioners)
            = <<MeasurementPath \o <<"m", "o", "t", "1">>>>

\* three motors were moved and the title names the last: it comes first, then a
\* before B
C19_Witness ==
    /\ call.op = "getScannedPositioners"
    /\ call.tokens = <<<<"c">>>>
    /\ call.ret = <<MeasurementPath \o <<"c">>, MeasurementPath \o <<"a">>, MeasurementPath \o <<"B">>>>

(***************************************************************************)
(* QNexusWidget: the counter table and the configuration files.  A file is *)
(* what ConfigDict reads from it: whether it has the sections HDF5 and     *)
(* WidgetConfiguration, and the keys of that section.  The value of shapes *)
(* is a list or a value without length.                                    *)
(***************************************************************************)
sourceVars == <<pc, sourceName, sourceNameList, sourceObjectList, lastKeyInfo, disk, adoptedOpen>>

\* the shape of a counter
Shape == <<2>>

\* lines 432-441: getWidgetConfiguration()
getWidgetConfiguration(table) ==
    [counters |-> table.cntList, aliases |-> table.aliasList,
     shapes |-> [scalar |-> FALSE, list |-> table.shapeList]]

\* lines 443-460: setWidgetConfiguration(ddict) with a ddict holding counters
\* and aliases
setWidgetConfiguration(ddict, table) ==
    IF Len(ddict["counters"]) > 0
    THEN [cntList |-> ddict["counters"], aliasList |-> ddict["aliases"],
          shapeList |-> IF "shapes" \in DOMAIN ddict THEN ddict["shapes"].list
                        ELSE [i \in 1..Len(ddict["counters"]) |-> None]]
    ELSE table

\* lines 235-275: _getConfigurationFromFile(fname): the message shown and the
\* section returned, None when the file is refused
_getConfigurationFromFile(file) ==
    IF ~file.hdf5
    THEN [message |-> "File does not contain HDF5 configuration", ret |-> None]
    ELSE IF ~file.widget
    THEN [message |-> "File does not contain HDF5 WidgetConfiguration", ret |-> None]
    ELSE IF "counters" \notin DOMAIN file.config \/ "aliases" \notin DOMAIN file.config
    THEN [message |-> "File does not contain HDF5 counters information", ret |-> None]
    ELSE IF Len(file.config["counters"]) # Len(file.config["aliases"])
    THEN [message |-> "Number of counters does not match number of aliases", ret |-> None]
    ELSE [message |-> "none", ret |-> file.config]

\* lines 284-291: the shapes of a loaded configuration
LoadedShapes(ddict) ==
    IF "shapes" \notin DOMAIN ddict
    THEN [scalar |-> FALSE, list |-> [i \in 1..Len(ddict["counters"]) |-> None]]
    ELSE IF ddict["shapes"].scalar THEN [scalar |-> FALSE, list |-> <<Shape>>]
    ELSE IF Len(ddict["shapes"].list) # Len(ddict["counters"])
    THEN [scalar |-> FALSE, list |-> <<ddict["shapes"].list>>]
    ELSE ddict["shapes"]

\* lines 278-292: _loadCounterTableConfiguration() once a file was chosen
_loadCounterTableConfiguration(file, table) ==
    LET read == _getConfigurationFromFile(file)
    IN IF read.ret = None THEN [raised |-> "none", message |-> read.message, table |-> table]
       ELSE IF Len(LoadedShapes(read.ret).list) # Len(read.ret["counters"])
       THEN [raised |-> "AssertionError", message |-> "none", table |-> table]
       ELSE [raised |-> "none", message |-> "none",
             table |-> setWidgetConfiguration(("shapes" :> LoadedShapes(read.ret)) @@ read.ret, table)]

\* lines 305-310: the loop over the counters of the file, from counter i on.
\* The lists of getWidgetConfiguration() are taken as copies: when the loop
\* raises, the table is as it was
RECURSIVE MergeFrom(_, _, _)
MergeFrom(i, ddict, current) ==
    IF i > Len(ddict["counters"]) THEN [raised |-> "none", current |-> current]
    ELSE IF InSeq(ddict["counters"][i], current.counters) THEN MergeFrom(i + 1, ddict, current)
    ELSE IF ddict["shapes"].scalar THEN [raised |-> "TypeError: not subscriptable", current |-> current]
    ELSE IF i > Len(ddict["shapes"].list) THEN [raised |-> "IndexError", current |-> current]
    ELSE MergeFrom(i + 1, ddict,
                   [counters |-> Append(current.counters, ddict["counters"][i]),
                    aliases |-> Append(current.aliases, ddict["aliases"][i]),
                    shapes |-> [scalar |-> FALSE,
                                list |-> Append(current.shapes.list, ddict["shapes"].list[i])]])

\* lines 294-312: _mergeCounterTableConfiguration() once a file was chosen
_mergeCounterTableConfiguration(file, table) ==
    LET read == _getConfigurationFromFile(file)
    IN IF read.ret = None THEN [raised |-> "none", message |-> read.message, table |-> table]
       ELSE IF "shapes" \notin DOMAIN read.ret
       THEN [raised |-> "KeyError: 'shapes'", message |-> "none", table |-> table]
       ELSE IF MergeFrom(1, read.ret, getWidgetConfiguration(table)).raised # "none"
       THEN [raised |-> MergeFrom(1, read.ret, getWidgetConfiguration(table)).raised,
             message |-> "none", table |-> table]
       ELSE [raised |-> "none", message |-> "none",
             table |-> setWidgetConfiguration(MergeFrom(1, read.ret, getWidgetConfiguration(table)).current,
                                              table)]

\* the files drawn: without the sections, or with a WidgetConfiguration whose
\* keys counters, aliases and shapes are each absent or a list of up to
\* MaxCounters items; shapes may also be a single value
MaxCounters == 2
CounterNames == {<<"c">> \o Dec(i) : i \in 1..MaxCounters}
CounterLists == UNION {[1..n -> CounterNames] : n \in 0..MaxCounters}
AliasLists == {[i \in 1..n |-> <<"a">>] : n \in 0..MaxCounters}
ShapesValues ==
    {[scalar |-> TRUE, list |-> <<>>]}
    \cup {[scalar |-> FALSE, list |-> [i \in 1..n |-> Shape]] : n \in 0..(MaxCounters + 1)}
KeyValues(key, values) == {<<>>} \cup {key :> v : v \in values}
ConfigInputs ==
    {c @@ a @@ s : c \in KeyValues("counters", CounterLists), a \in KeyValues("aliases", AliasLists),
                   s \in KeyValues("shapes", ShapesValues)}
FileInputs ==
    {[hdf5 |-> FALSE, widget |-> FALSE, config |-> <<>>], [hdf5 |-> TRUE, widget |-> FALSE, config |-> <<>>]}
    \cup {[hdf5 |-> TRUE, widget |-> TRUE, config |-> config] : config \in ConfigInputs}

\* the menu entry "Load" on the empty table: a file is chosen and loaded
LoadCounterTableConfiguration ==
    /\ call.op = "none"
    /\ \E file \in FileInputs :
         LET r == _loadCounterTableConfiguration(file, cntTable)
         IN /\ cntTable' = r.table
            /\ call' = [op |-> "_loadCounterTableConfiguration", file |-> file, before |-> cntTable,
                        raised |-> r.raised, message |-> r.message]
    /\ UNCHANGED sourceVars

\* the menu entry "Merge", on the empty table or after a file was loaded into
\* it: a file is chosen and merged into the table
MergeCounterTableConfiguration ==
    /\ \/ call.op = "none"
       \/ /\ call.op = "_loadCounterTableConfiguration"
          /\ call.raised = "none" /\ call.message = "none"
    /\ \E file \in FileInputs :
         LET r == _mergeCounterTableConfiguration(file, cntTable)
         IN /\ cntTable' = r.table
            /\ call' = [op |-> "_mergeCounterTableConfiguration", file |-> file, before |-> cntTable,
                        raised |-> r.raised, message |-> r.message]
    /\ UNCHANGED sourceVars

NextWidget == LoadCounterTableConfiguration \/ MergeCounterTableConfiguration

SpecWidget == InitPure /\ [][NextWidget]_vars

\* the section lacks one of counters, aliases, shapes, or its lists differ in length
Malformed(config) ==
    \/ {"counters", "aliases", "shapes"} \ DOMAIN config # {}
    \/ config["shapes"].scalar
    \/ Len(config["counters"]) # Len(config["aliases"])
    \/ Len(config["counters"]) # Len(config["shapes"].list)

\* C20 as claimed: loading or merging a configuration file never raises, and a
\* file whose WidgetConfiguration lacks counters, aliases or shapes, or whose
\* three lists differ in length, is refused with a message and leaves the
\* counter table as it was.
C20_MalformedFileRefused ==
    call.op \in {"_loadCounterTableConfiguration", "_mergeCounterTableConfiguration"}
    => /\ call.raised = "none"
       /\ (call.file.widget /\ Malformed(call.file.config))
          => (call.message # "none" /\ cntTable = call.before)

(***************************************************************************)
(* Claims about the live time of an indexed spectrum.                      *)
(***************************************************************************)
\* the place, from 0, of the returned spectrum among the spectra of the cube:
\* the cube holds the values 0, 1, 2, ... in row-major order
SpectrumPlace == call.output.y[1].flat[1] \div Channels

\* C21 as claimed: under the mca role with "index(k)" or "slice(i1, ...)", also
\* with negative integers, a live_time holding one value per spectrum comes
\* back as the value at the place of the spectrum returned in y.
C21_LiveTimeOfReturnedSpectrum ==
    (/\ IsMcaCall /\ CallResolved
     /\ McaMode.prefix \in {"index", "slice"}
     /\ call.content.mca.live = "array"
     /\ RoleRead(call.content.mca, "live_time")
     /\ call.raised = "none"
     /\ call.output.y # << >>)
    => /\ "McaLiveTime" \in DOMAIN call.output.info
       /\ call.output.info["McaLiveTime"]
          = Scalar(LiveTimeOf("array", McaShape).flat[SpectrumPlace + 1])

(***************************************************************************)
(* Claims about the measurement group.                                     *)
(***************************************************************************)
\* the groups among the children of the entry of the call
GroupNamed(key) ==
    {i \in 1..Len(call.entry.children) :
       call.entry.children[i].key = key /\ call.entry.children[i].kind = "group"}
NXdataChildren ==
    {i \in 1..Len(call.entry.children) :
       call.entry.children[i].kind = "group" /\ call.entry.children[i].nxclass = "NXdata"}
\* the default attribute names a group of the entry
DefaultGroup == IF call.entry.default = None THEN {} ELSE GroupNamed(call.entry.default[1])
\* the NXdata child with the most items, the first of them
LargestNXdata ==
    CHOOSE i \in NXdataChildren :
      /\ \A j \in NXdataChildren : call.entry.children[j].nitems <= call.entry.children[i].nitems
      /\ \A j \in NXdataChildren : j < i => call.entry.children[j].nitems < call.entry.children[i].nitems

\* C22 as claimed: getMeasurementGroup returns the child named measurement when
\* it is a group; else the group the default attribute names; else, the
\* attribute being absent or naming no group of the entry, the NXdata child with
\* the most items, the first seen winning ties; None only when there is none of
\* the three.
C22_MeasurementGroupChosen ==
    call.op = "getMeasurementGroup"
    => call.ret = IF GroupNamed("measurement") # {}
                  THEN call.entry.children[CHOOSE i \in GroupNamed("measurement") : TRUE]
                  ELSE IF DefaultGroup # {}
                  THEN call.entry.children[CHOOSE i \in DefaultGroup : TRUE]
                  ELSE IF NXdataChildren # {} THEN call.entry.children[LargestNXdata]
                  ELSE None

\* C23: getMcaList returns exactly the datasets under the path that qualify
\* (interpretation "spectrum", or no interpretation attribute and the own name
\* or the name of the immediate parent group starting with "mca" whatever the
\* case) and are not rejected (name in the ignore set; full path holding
\* "measurement" with a dataset qualified by its attribute, of one dimension
\* and with as many elements as a scanned positioner; scalar, or last
\* dimension at most 1).
FullName == call.path \o call.obj.name
QualifiesAsStated ==
    \/ call.obj.interpretation = <<TextSpectrum>>
    \/ /\ call.obj.interpretation = None
       /\ \/ StartsWith(LowerText(LastComponent(FullName)), TextMca)
          \/ StartsWith(LowerText(LastComponent(ParentName(FullName))), TextMca)
RejectedAsStated ==
    \/ LowerText(LastComponent(FullName)) \in IgnoreNames
    \/ /\ \E i \in 1..Len(FullName) : Contains(TextMeasurement, FullName[i])
       /\ call.obj.interpretation = <<TextSpectrum>>
       /\ Len(call.obj.shape) = 1
       /\ \E i \in 1..Len(call.posnames) : call.posnames[i] = Product(call.obj.shape)
    \/ Len(call.obj.shape) = 0
    \/ call.obj.shape[Len(call.obj.shape)] <= 1
C23_McaListExactlyQualifying ==
    call.op = "getMcaList"
    => (call.ret = <<FullName>>) <=> (QualifiesAsStated /\ ~RejectedAsStated)

\* C24: getMcaObjectPaths resolves each role name to the child of that name in
\* the first group that has one among the group of the MCA dataset, its child
\* group info, and the grandparent only when its NX_class is NXdetector; a role
\* found in none is absent; the counts entry is always the path passed in,
\* also when the roles were found by following a soft or external link.
PathsReturned ==
    call.op = "getMcaObjectPaths" /\ ~call.running /\ call.raised = "none"
InParentGroup(key) == key \in SiteOf(call.h5, TopFrame).parent
InInfoGroup(key) ==
    SiteOf(call.h5, TopFrame).info.kind = "group" /\ key \in SiteOf(call.h5, TopFrame).info.keys
InDetector(key) == call.h5[TopFrame[1]].detector /\ key \in call.h5[TopFrame[1]].grand
FirstPlace(key) ==
    IF InParentGroup(key) THEN "parent" ELSE IF InInfoGroup(key) THEN "info" ELSE "grand"
FileNames == IF TopFrame[1] = "F" THEN << >> ELSE <<TopFrame[1]>>
C29_LinkRecursionEnds ==
    call.op = "getMcaObjectPaths"
    => \A i, j \in 1..Len(call.frames) : call.frames[i] = call.frames[j] => i = j

\* C25: the candidates of getScannedPositioners are the datasets of measurement
\* whose key is the key of a dataset of positioners; when they are more than
\* one only those with more than one element are kept; when none remains the
\* datasets of positioners with more than one element are taken; and when the
\* title holds "fscan " or there is still no candidate the datasets of
\* measurement whose key is a token of the title are added.
KeysOf(items, kinds) == {items[i].key : i \in {j \in 1..Len(items) : items[j].kind \in kinds}}
SharedKeys ==
    KeysOf(call.measurement.items, {"scalar", "array"})
    \cap KeysOf(call.positioners.items, {"scalar", "array"})
KeptKeys ==
    IF Cardinality(SharedKeys) > 1
    THEN SharedKeys \cap KeysOf(call.measurement.items, {"array"})
    ELSE SharedKeys
FromGroupsStated ==
    IF KeptKeys # {}
    THEN {MeasurementPath \o key : key \in KeptKeys}
    ELSE {PositionersPath \o key : key \in KeysOf(call.positioners.items, {"array"})}
FromTitleStated ==
    IF HasFscan(call.tokens) \/ FromGroupsStated = {}
    THEN {MeasurementPath \o key :
            key \in {k \in KeysOf(call.measurement.items, {"scalar", "array"}) : InSeq(k, call.tokens)}}
    ELSE {}
C25_CandidatesAsStated ==
    call.op = "getScannedPositioners"
    => {call.ret[i] : i \in 1..Len(call.ret)} = FromGroupsStated \cup FromTitleStated

\* C30: the list getScannedPositioners returns never holds the same path
\* twice, also when a motor is found both among the motors of measurement and
\* as a token of an "fscan " title.
C30_NoPathTwice ==
    call.op = "getScannedPositioners"
    => \A i, j \in 1..Len(call.ret) : call.ret[i] = call.ret[j] => i = j

\* C27: for a shape of rank R >= 2 with positive sizes and coordinates s of
\* length R - 1 with 0 <= s[i] < shape[i], _to_slice_mode(_to_index_mode(s,
\* shape), shape) is s, and _to_index_mode(s, shape) lies in 0 .. product of
\* the leading sizes - 1.
C27_SliceOfIndexIsIdentity ==
    (/\ call.op = "_to_index_mode"
     /\ Len(call.shape) >= 2
     /\ Len(call.slice_idx) = Len(call.shape) - 1
     /\ \A i \in 1..Len(call.slice_idx) : 0 <= call.slice_idx[i] /\ call.slice_idx[i] < call.shape[i])
    => /\ call.back = call.slice_idx
       /\ 0 <= call.single_index
       /\ call.single_index <= Product(LeadingDims(call.shape)) - 1
\* the coordinates (1, 0, 2) of shape (2, 3, 3, n) are index 11
C27_Witness ==
    /\ call.op = "_to_index_mode"
    /\ call.shape = <<2, 3, 3, 2>>
    /\ call.slice_idx = <<1, 0, 2>>
    /\ call.single_index = 11
    /\ call.back = <<1, 0, 2>>

\* C28: in every record getDataObject returns, MotorNames and MotorValues of
\* its info are both absent, or both present with the same length and
\* MotorValues[i] the value read for MotorNames[i], also when one of the
\* datasets of the positioners group cannot be read.
MotorNamed(name) ==
    LET motors == call.content.positioners.motors
    IN motors[CHOOSE i \in 1..Len(motors) : motors[i].name = name]
C28_MotorNamesMatchValues ==
    (call.op = "getDataObject" /\ call.raised = "none")
    => LET info == call.output.info
       IN /\ ("MotorNames" \in DOMAIN info) <=> ("MotorValues" \in DOMAIN info)
          /\ "MotorNames" \in DOMAIN info
             => /\ Len(info["MotorNames"]) = Len(info["MotorValues"])
                /\ \A i \in 1..Len(info["MotorValues"]) :
                     info["MotorValues"][i].flat[1] = MotorNamed(info["MotorNames"][i]).value.flat[1]

\* C26: getSourceInfo, getKeyInfo and getDataObject leave the data source as
\* it was, whether they return or raise: the handles held, the list of source
\* names and the modification times kept per key are after the call what they
\* were before it.
Readers == {"getSourceInfo", "getKeyInfo", "getDataObject", "getDataObject(None)"}
====
